---- MODULE Spec2Model ----
(***************************************************************************)
(* Model of the log-time-analyzer pipeline: per-line timestamp extraction  *)
(* and pattern classification (src/src/parser.rs), the built-in timestamp  *)
(* catalog (src/src/timestamp_formats.rs), interval analysis and duration  *)
(* rendering (src/src/analyzer.rs), driven as in src/src/main.rs.          *)
(*                                                                         *)
(* Text is a sequence of one-character strings.  A NaiveDateTime is a      *)
(* record [days, ms]: days since 1970-01-01 and milliseconds since         *)
(* midnight.  A chrono Duration is its signed number of milliseconds.      *)
(***************************************************************************)
EXTENDS Integers, Sequences, FiniteSets, TLC

VARIABLES
    args,       \* the config file and the command-line overrides given to main
    format_index,  \* index of a built-in timestamp format tried on its own
    config,     \* the Config handed to LogParser::new
    parser,     \* the LogParser built from it
    input,      \* the lines of the reader, in order
    pos,        \* index of the next line parse_reader will read
    matches,    \* the Vec<LogMatch> being collected / returned
    intervals,  \* the Vec<Interval> returned by Analyzer::analyze
    output,     \* what main prints: the rendered intervals, or a notice
    pc,         \* position of the run
    duration,   \* a Duration handed to format_duration
    text,       \* the String format_duration returned
    tested      \* how many message patterns parse_line tried on the last line

vars ==
    <<args, format_index, config, parser, input, pos, matches, intervals,
      output, pc, duration, text, tested>>

----------------------------------------------------------------------------
(* Bounds of the explored inputs.                                          *)

MaxMatches == 3

MaxDayOffset == 1

MaxSeconds == 3700

MaxLines == 2

----------------------------------------------------------------------------
(* chrono::Duration and NaiveDateTime arithmetic.                          *)

Abs(n) == IF n < 0 THEN -n ELSE n

\* Duration::num_milliseconds
num_milliseconds(d) == d

\* Duration::num_seconds: whole seconds, truncated toward zero
num_seconds(d) == IF d >= 0 THEN d \div 1000 ELSE -((-d) \div 1000)

\* variant of signed_duration_since: the magnitude of the difference
signed_duration_since_abs(to, from) ==
    Abs((to.days - from.days) * 86400000 + (to.ms - from.ms))

\* NaiveDateTime::signed_duration_since: date difference plus time difference
signed_duration_since(to, from) ==
    (to.days - from.days) * 86400000 + (to.ms - from.ms)

----------------------------------------------------------------------------
(* Analyzer::analyze                                                       *)

\* variant of analyze: the loop starts at the second match
analyze_from_second(ms) ==
    IF ms = <<>> THEN <<>>
    ELSE [i \in 1..(Len(ms) - 2) |->
            [from_pattern |-> ms[i + 1].pattern,
             to_pattern   |-> ms[i + 2].pattern,
             duration     |-> signed_duration_since(ms[i + 2].timestamp,
                                                    ms[i + 1].timestamp)]]

\* variant of analyze: every interval is measured from the first match
analyze_since_first(ms) ==
    IF ms = <<>> THEN <<>>
    ELSE [i \in 1..(Len(ms) - 1) |->
            [from_pattern |-> ms[1].pattern,
             to_pattern   |-> ms[i + 1].pattern,
             duration     |-> signed_duration_since(ms[i + 1].timestamp,
                                                    ms[1].timestamp)]]

analyze(ms) ==
    IF ms = <<>> THEN <<>>
    ELSE [i \in 1..(Len(ms) - 1) |->
            [from_pattern |-> ms[i].pattern,
             to_pattern   |-> ms[i + 1].pattern,
             duration     |-> signed_duration_since(ms[i + 1].timestamp,
                                                    ms[i].timestamp)]]

----------------------------------------------------------------------------
(* format_duration                                                         *)

DigitChar == <<"0", "1", "2", "3", "4", "5", "6", "7", "8", "9">>

RECURSIVE Display(_)
\* `{}` of a non-negative integer: its decimal digits
Display(n) ==
    IF n < 10 THEN <<DigitChar[n + 1]>>
    ELSE Display(n \div 10) \o <<DigitChar[(n % 10) + 1]>>

\* variant of format_duration: the minute shape also prints milliseconds
format_duration_minute_ms(d) ==
    LET total_seconds == num_seconds(d)
        is_negative   == total_seconds < 0
        abs_seconds   == Abs(total_seconds)
        hours         == abs_seconds \div 3600
        minutes       == (abs_seconds % 3600) \div 60
        seconds       == abs_seconds % 60
        millis        == Abs(num_milliseconds(d)) % 1000
        sign          == IF is_negative THEN <<"-">> ELSE <<>>
    IN  IF hours > 0 THEN
            sign \o Display(hours) \o <<"h", " ">> \o Display(minutes)
                 \o <<"m", " ">> \o Display(seconds) \o <<"s">>
        ELSE IF minutes > 0 THEN
            sign \o Display(minutes) \o <<"m", " ">> \o Display(seconds)
                 \o <<"s", " ">> \o Display(millis) \o <<"m", "s">>
        ELSE IF seconds > 0 THEN
            sign \o Display(seconds) \o <<"s", " ">> \o Display(millis)
                 \o <<"m", "s">>
        ELSE
            sign \o Display(millis) \o <<"m", "s">>

format_duration(d) ==
    LET total_seconds == num_seconds(d)
        is_negative   == total_seconds < 0
        abs_seconds   == Abs(total_seconds)
        hours         == abs_seconds \div 3600
        minutes       == (abs_seconds % 3600) \div 60
        seconds       == abs_seconds % 60
        millis        == Abs(num_milliseconds(d)) % 1000
        sign          == IF is_negative THEN <<"-">> ELSE <<>>
    IN  IF hours > 0 THEN
            sign \o Display(hours) \o <<"h", " ">> \o Display(minutes)
                 \o <<"m", " ">> \o Display(seconds) \o <<"s">>
        ELSE IF minutes > 0 THEN
            sign \o Display(minutes) \o <<"m", " ">> \o Display(seconds)
                 \o <<"s">>
        ELSE IF seconds > 0 THEN
            sign \o Display(seconds) \o <<"s", " ">> \o Display(millis)
                 \o <<"m", "s">>
        ELSE
            sign \o Display(millis) \o <<"m", "s">>

----------------------------------------------------------------------------
(* The regex crate, as far as the program uses it: Regex::new compiles a   *)
(* pattern text to a tree, is_match and captures search a line for the     *)
(* leftmost match, preferring earlier alternatives and longer repetitions  *)
(* (leftmost-first).  Supported syntax: literals, ".", "^", "$", "\d",     *)
(* "\s", "\w", "\b", escaped punctuation, "[...]" classes with ranges,     *)
(* "(...)", "(?:...)", "|", and the greedy quantifiers "?", "*", "+",      *)
(* "{n}", "{n,}", "{n,m}".                                                 *)

\* the printable ASCII characters in code order, from space to "~" (the
\* backquote, which a TLA+ string cannot hold, is left out)
Printable ==
    <<" ", "!", "\"", "#", "$", "%", "&", "'", "(", ")", "*", "+", ",", "-",
      ".", "/", "0", "1", "2", "3", "4", "5", "6", "7", "8", "9", ":", ";",
      "<", "=", ">", "?", "@", "A", "B", "C", "D", "E", "F", "G", "H", "I",
      "J", "K", "L", "M", "N", "O", "P", "Q", "R", "S", "T", "U", "V", "W",
      "X", "Y", "Z", "[", "\\", "]", "^", "_", "a", "b", "c", "d", "e",
      "f", "g", "h", "i", "j", "k", "l", "m", "n", "o", "p", "q", "r", "s",
      "t", "u", "v", "w", "x", "y", "z", "{", "|", "}", "~">>

CharCode(c) == CHOOSE i \in 1..Len(Printable) : Printable[i] = c

CharRange(a, b) == {Printable[i] : i \in CharCode(a)..CharCode(b)}

AnyChar == {Printable[i] : i \in 1..Len(Printable)}

Digit == CharRange("0", "9")

Whitespace == {" ", "\t"}

WordChar == Digit \cup CharRange("A", "Z") \cup CharRange("a", "z") \cup {"_"}

Punctuation == AnyChar \ (WordChar \cup {" "})

DigitValue(c) == CharCode(c) - CharCode("0")

ParseFail == [ok |-> FALSE]

RECURSIVE ParseNumber(_, _, _, _)
\* the decimal number at p[i..]: its value, digit count and end
ParseNumber(p, i, val, n) ==
    IF i <= Len(p) /\ p[i] \in Digit
    THEN ParseNumber(p, i + 1, val * 10 + DigitValue(p[i]), n + 1)
    ELSE [val |-> val, n |-> n, pos |-> i]

\* the set an escape "\x" stands for inside or outside a class
EscapeSet(c) ==
    IF c = "d" THEN Digit
    ELSE IF c = "s" THEN Whitespace
    ELSE IF c = "w" THEN WordChar
    ELSE IF c \in Punctuation THEN {c}
    ELSE {}

RECURSIVE ParseClass(_, _, _)
\* the items of a bracketed class from p[i] up to its closing "]"
ParseClass(p, i, set) ==
    IF i > Len(p) THEN ParseFail
    ELSE IF p[i] = "]" THEN [ok |-> TRUE, set |-> set, pos |-> i + 1]
    ELSE IF p[i] = "\\" THEN
        IF i + 1 > Len(p) \/ EscapeSet(p[i + 1]) = {} THEN ParseFail
        ELSE ParseClass(p, i + 2, set \cup EscapeSet(p[i + 1]))
    ELSE IF i + 2 <= Len(p) /\ p[i + 1] = "-" /\ p[i + 2] # "]" THEN
        IF CharCode(p[i]) > CharCode(p[i + 2]) THEN ParseFail
        ELSE ParseClass(p, i + 3, set \cup CharRange(p[i], p[i + 2]))
    ELSE ParseClass(p, i + 1, set \cup {p[i]})

\* the only element of a singleton set; The({e(v) : v \in {x}}) is e(x)
\* with x computed once
The(S) == CHOOSE v \in S : TRUE

\* a counted repetition whose first number is a and, after a comma, b
CountedQuant(p, a, b) ==
    IF a.n = 0 \/ a.pos > Len(p) THEN ParseFail
    ELSE IF p[a.pos] = "}" THEN
        [ok |-> TRUE, lo |-> a.val, hi |-> a.val, pos |-> a.pos + 1]
    ELSE IF p[a.pos] # "," \/ b.pos > Len(p) \/ p[b.pos] # "}" THEN ParseFail
    ELSE IF b.n = 0 THEN
        [ok |-> TRUE, lo |-> a.val, hi |-> -1, pos |-> b.pos + 1]
    ELSE IF b.val < a.val THEN ParseFail
    ELSE [ok |-> TRUE, lo |-> a.val, hi |-> b.val, pos |-> b.pos + 1]

\* the quantifier at p[i], if any: [lo, hi] with hi = -1 for no upper limit
ParseQuant(p, i) ==
    IF i > Len(p) THEN [ok |-> TRUE, lo |-> 1, hi |-> 1, pos |-> i]
    ELSE IF p[i] = "?" THEN [ok |-> TRUE, lo |-> 0, hi |-> 1, pos |-> i + 1]
    ELSE IF p[i] = "*" THEN [ok |-> TRUE, lo |-> 0, hi |-> -1, pos |-> i + 1]
    ELSE IF p[i] = "+" THEN [ok |-> TRUE, lo |-> 1, hi |-> -1, pos |-> i + 1]
    ELSE IF p[i] = "{" THEN
        The({The({CountedQuant(p, a, b) : b \in {ParseNumber(p, a.pos + 1, 0, 0)}})
                : a \in {ParseNumber(p, i + 1, 0, 0)}})
    ELSE [ok |-> TRUE, lo |-> 1, hi |-> 1, pos |-> i]

\* the default size_limit of a compiled Regex, 10 * (1 << 20) bytes
SizeLimit == 10485760

\* bytes the Unicode class \w takes when compiled: no Regex with \w builds
\* under RegexBuilder::size_limit(45_000)
UnicodeWordSize == 45000

\* a lower bound of the bytes a class takes when compiled
ClassSize(c) == IF c = "w" THEN UnicodeWordSize ELSE 1

ClassNode(set, size) ==
    [t |-> "cls", set |-> set, lo |-> 1, hi |-> 1, size |-> size]

AssertNode(kind) == [t |-> kind, lo |-> 1, hi |-> 1]

GroupNode(alts, cap) ==
    [t |-> "grp", alts |-> alts, cap |-> cap, lo |-> 1, hi |-> 1]

Atom(node, at, ng) == [ok |-> TRUE, node |-> node, pos |-> at, ng |-> ng]

RECURSIVE ParseAlt(_, _, _, _), ParseConcat(_, _, _, _), ParseAtom(_, _, _)

\* one atom at p[i]; ng counts the capture groups opened so far
ParseAtom(p, i, ng) ==
    IF p[i] = "(" THEN
        IF i + 2 <= Len(p) /\ p[i + 1] = "?" /\ p[i + 2] = ":" THEN
            The({IF ~r.ok \/ r.pos > Len(p) \/ p[r.pos] # ")" THEN ParseFail
                 ELSE Atom(GroupNode(r.alts, 0), r.pos + 1, r.ng)
                    : r \in {ParseAlt(p, i + 3, ng, <<>>)}})
        ELSE
            The({IF ~r.ok \/ r.pos > Len(p) \/ p[r.pos] # ")" THEN ParseFail
                 ELSE Atom(GroupNode(r.alts, ng + 1), r.pos + 1, r.ng)
                    : r \in {ParseAlt(p, i + 1, ng + 1, <<>>)}})
    ELSE IF p[i] = "[" THEN
        IF i + 1 <= Len(p) /\ p[i + 1] = "^" THEN
            The({IF ~r.ok THEN ParseFail
                 ELSE Atom(ClassNode(AnyChar \ r.set, 1), r.pos, ng)
                    : r \in {ParseClass(p, i + 2, {})}})
        ELSE
            The({IF ~r.ok THEN ParseFail
                 ELSE Atom(ClassNode(r.set, 1), r.pos, ng)
                    : r \in {ParseClass(p, i + 1, {})}})
    ELSE IF p[i] = "\\" THEN
        IF i + 1 > Len(p) THEN ParseFail
        ELSE IF p[i + 1] = "b" THEN Atom(AssertNode("wb"), i + 2, ng)
        ELSE The({IF set = {} THEN ParseFail
                  ELSE Atom(ClassNode(set, ClassSize(p[i + 1])), i + 2, ng)
                     : set \in {EscapeSet(p[i + 1])}})
    ELSE IF p[i] = "." THEN Atom(ClassNode(AnyChar, 1), i + 1, ng)
    ELSE IF p[i] = "^" THEN Atom(AssertNode("bol"), i + 1, ng)
    ELSE IF p[i] = "$" THEN Atom(AssertNode("eol"), i + 1, ng)
    ELSE IF p[i] \in {"?", "*", "+", "{", "}", "]"} THEN ParseFail
    ELSE Atom(ClassNode({p[i]}, 1), i + 1, ng)

\* the atom a with the quantifier q that follows it
Quantified(a, q) ==
    IF ~q.ok THEN ParseFail
    ELSE [ok |-> TRUE, node |-> [a.node EXCEPT !.lo = q.lo, !.hi = q.hi],
          pos |-> q.pos, ng |-> a.ng]

\* a concatenation of quantified atoms, up to "|", ")" or the end
ParseConcat(p, i, ng, acc) ==
    IF i > Len(p) \/ p[i] \in {"|", ")"}
    THEN [ok |-> TRUE, seq |-> acc, pos |-> i, ng |-> ng]
    ELSE The({IF ~a.ok THEN ParseFail
              ELSE The({IF ~qa.ok THEN ParseFail
                        ELSE ParseConcat(p, qa.pos, qa.ng, Append(acc, qa.node))
                           : qa \in {Quantified(a, ParseQuant(p, a.pos))}})
                 : a \in {ParseAtom(p, i, ng)}})

\* alternatives separated by "|"
ParseAlt(p, i, ng, alts) ==
    The({IF ~c.ok THEN ParseFail
         ELSE IF c.pos <= Len(p) /\ p[c.pos] = "|"
         THEN ParseAlt(p, c.pos + 1, c.ng, Append(alts, c.seq))
         ELSE [ok |-> TRUE, alts |-> Append(alts, c.seq), pos |-> c.pos,
               ng |-> c.ng]
            : c \in {ParseConcat(p, i, ng, <<>>)}})

\* a + b and a * b of sizes, saturating just above SizeLimit
SizeSum(a, b) == IF a + b > SizeLimit THEN SizeLimit + 1 ELSE a + b

SizeTimes(a, k) ==
    IF k = 0 \/ a = 0 THEN 0
    ELSE IF k > SizeLimit \div a THEN SizeLimit + 1
    ELSE a * k

\* the copies of its operand a repetition {lo,hi} compiles to
Copies(n) == IF n.hi = -1 THEN (IF n.lo = 0 THEN 1 ELSE n.lo) ELSE n.hi

RECURSIVE NodeSize(_), SeqSize(_, _), AltsSize(_, _)

\* a lower bound of the compiled size of the items seq[i..]
SeqSize(seq, i) ==
    IF i > Len(seq) THEN 0
    ELSE SizeSum(NodeSize(seq[i]), SeqSize(seq, i + 1))

\* a lower bound of the compiled size of the alternatives alts[k..]
AltsSize(alts, k) ==
    IF k > Len(alts) THEN 0
    ELSE SizeSum(SeqSize(alts[k], 1), AltsSize(alts, k + 1))

\* a lower bound of the compiled size of one quantified item
NodeSize(n) ==
    IF n.t = "cls" THEN SizeTimes(n.size, Copies(n))
    ELSE IF n.t = "grp" THEN SizeTimes(AltsSize(n.alts, 1), Copies(n))
    ELSE 1

\* one message of an error chain (anyhow context or cause): its wording and
\* the text it quotes, if any
Msg(wording) == [msg |-> wording, quoted |-> <<>>]

MsgQuoting(wording, quoted) == [msg |-> wording, quoted |-> quoted]

\* the Display of regex::Error::Syntax, which quotes the pattern
SyntaxError(p) ==
    [ok |-> FALSE, error |-> <<MsgQuoting("regex parse error", p)>>]

\* the Display of regex::Error::CompiledTooBig, which names the limit only
CompiledTooBig ==
    [ok |-> FALSE, error |-> <<Msg("Compiled regex exceeds size limit")>>]

\* Regex::new: Ok with the compiled tree, Err(Syntax) for a pattern that
\* does not parse (an unclosed or unopened group, a dangling quantifier,
\* ...), Err(CompiledTooBig) for one whose program exceeds the size limit
Regex_new(p) ==
    The({IF ~(r.ok /\ r.pos > Len(p)) THEN SyntaxError(p)
         ELSE IF AltsSize(r.alts, 1) > SizeLimit THEN CompiledTooBig
         ELSE [ok |-> TRUE, re |-> <<GroupNode(r.alts, 0)>>]
            : r \in {ParseAlt(p, 1, 0, <<>>)}})

NoMatch == [ok |-> FALSE]

IsWordAt(s, i) == i >= 1 /\ i <= Len(s) /\ s[i] \in WordChar

RECURSIVE RunLen(_, _, _, _)
\* how many characters of s from position i on lie in set, at most hi
RunLen(s, i, set, hi) ==
    IF hi = 0 \/ i > Len(s) \/ s[i] \notin set THEN 0
    ELSE 1 + RunLen(s, i + 1, set, IF hi = -1 THEN -1 ELSE hi - 1)

\* alternative k of group n, between capture marks if n is group 1
GroupBody(n, k) ==
    IF n.cap = 1
    THEN <<[t |-> "cs"]>> \o n.alts[k] \o <<[t |-> "ce"]>>
    ELSE n.alts[k]

\* what follows one turn of group n: the turns it may still take, then rest
GroupRest(n, rest) ==
    IF n.hi = 1 THEN rest
    ELSE <<[n EXCEPT !.lo = IF n.lo = 0 THEN 0 ELSE n.lo - 1,
                     !.hi = IF n.hi = -1 THEN -1 ELSE n.hi - 1]>> \o rest

RECURSIVE MatchHere(_, _, _), TryCounts(_, _, _, _, _), TryAlts(_, _, _, _, _)

\* match the items re at st.pos, backtracking in preference order
MatchHere(re, s, st) ==
    IF re = <<>> THEN [st EXCEPT !.ok = TRUE]
    ELSE LET n == Head(re)
             rest == Tail(re)
         IN  IF n.t = "cls" THEN
                 TryCounts(n, rest, s, st, RunLen(s, st.pos, n.set, n.hi))
             ELSE IF n.t = "grp" THEN TryAlts(n, rest, s, st, 1)
             ELSE IF n.t = "cs" THEN
                 MatchHere(rest, s, [st EXCEPT !.cs = st.pos])
             ELSE IF n.t = "ce" THEN
                 MatchHere(rest, s, [st EXCEPT !.ce = st.pos])
             ELSE IF n.t = "wb" THEN
                 IF IsWordAt(s, st.pos - 1) # IsWordAt(s, st.pos)
                 THEN MatchHere(rest, s, st) ELSE NoMatch
             ELSE IF n.t = "bol" THEN
                 IF st.pos = 1 THEN MatchHere(rest, s, st) ELSE NoMatch
             ELSE IF st.pos = Len(s) + 1 THEN MatchHere(rest, s, st)
             ELSE NoMatch

\* a repeated class: the longest run first, then shorter ones
TryCounts(n, rest, s, st, j) ==
    IF j < n.lo THEN NoMatch
    ELSE The({IF r.ok THEN r ELSE TryCounts(n, rest, s, st, j - 1)
                 : r \in {MatchHere(rest, s, [st EXCEPT !.pos = st.pos + j])}})

\* a group: its alternatives in order, then (if optional) nothing
TryAlts(n, rest, s, st, k) ==
    IF k > Len(n.alts) THEN
        IF n.lo = 0 THEN MatchHere(rest, s, st) ELSE NoMatch
    ELSE The({IF r.ok THEN r ELSE TryAlts(n, rest, s, st, k + 1)
                 : r \in {MatchHere(GroupBody(n, k) \o GroupRest(n, rest), s, st)}})

RECURSIVE Search(_, _, _)
Search(re, s, p) ==
    IF p > Len(s) + 1 THEN NoMatch
    ELSE The({IF r.ok THEN r ELSE Search(re, s, p + 1)
                 : r \in {MatchHere(re, s, [ok |-> FALSE, start |-> p,
                                            pos |-> p, cs |-> 0, ce |-> 0])}})

\* Regex::captures: the leftmost match, or none
captures(re, s) == Search(re, s, 1)

\* Regex::is_match
is_match(re, s) == captures(re, s).ok

\* Captures::get(1): whether group 1 took part, and its text
get1(c, s) ==
    IF c.cs > 0 /\ c.ce >= c.cs
    THEN [some |-> TRUE, str |-> SubSeq(s, c.cs, c.ce - 1)]
    ELSE [some |-> FALSE]

----------------------------------------------------------------------------
(* chrono's NaiveDateTime::parse_from_str(s, fmt): the format text is read *)
(* item by item (StrftimeItems) against s, filling a Parsed; s must be     *)
(* consumed entirely; the Parsed is then resolved to a date and a time.    *)
(* Supported specifiers: %Y %m %d %H %I %M %S %p %b %s %z %:z %.f %.3f     *)
(* %.6f %.9f %3f %6f %9f %%.  Fractions of a second are kept to the        *)
(* millisecond.                                                            *)

ParseErr == [ok |-> FALSE]

LowerCase(c) ==
    IF c \in CharRange("A", "Z")
    THEN Printable[CharCode(c) - CharCode("A") + CharCode("a")]
    ELSE c

LowerText(s) == [i \in 1..Len(s) |-> LowerCase(s[i])]

ShortMonths ==
    << <<"j", "a", "n">>, <<"f", "e", "b">>, <<"m", "a", "r">>,
       <<"a", "p", "r">>, <<"m", "a", "y">>, <<"j", "u", "n">>,
       <<"j", "u", "l">>, <<"a", "u", "g">>, <<"s", "e", "p">>,
       <<"o", "c", "t">>, <<"n", "o", "v">>, <<"d", "e", "c">> >>

IsLeapYear(y) == (y % 4 = 0 /\ y % 100 # 0) \/ y % 400 = 0

DaysInMonth(y, m) ==
    IF m = 2 THEN (IF IsLeapYear(y) THEN 29 ELSE 28)
    ELSE IF m \in {4, 6, 9, 11} THEN 30 ELSE 31

\* days from 1970-01-01 to the proleptic Gregorian date y-m-d
DaysFromCivil(y, m, d) ==
    LET yy  == IF m <= 2 THEN y - 1 ELSE y
        era == yy \div 400
        yoe == yy - era * 400
        doy == (153 * (IF m > 2 THEN m - 3 ELSE m + 9) + 2) \div 5 + d - 1
        doe == yoe * 365 + yoe \div 4 - yoe \div 100 + doy
    IN  era * 146097 + doe - 719468

\* the last day a NaiveDate can hold (31 December 262143), in days from
\* 1970-01-01
MaxNaiveDays == 95026601

RECURSIVE DigitsValue(_, _, _)
\* the value of the n digits of s from position j
DigitsValue(s, j, n) ==
    IF n = 0 THEN 0
    ELSE DigitsValue(s, j, n - 1) * 10 + DigitValue(s[j + n - 1])

RECURSIVE SplitSeconds(_, _, _, _, _)
\* a count of seconds written as the n digits of s from j, split into whole
\* days and seconds of the day; days saturate above every NaiveDate
SplitSeconds(s, j, n, q, r) ==
    IF n = 0 THEN [days |-> q, secs |-> r]
    ELSE LET x == r * 10 + DigitValue(s[j])
             qq == q * 10 + x \div 86400
         IN  SplitSeconds(s, j + 1, n - 1,
                          IF qq > 100000000 THEN 100000000 ELSE qq, x % 86400)

TrimStart(s, j) == j + RunLen(s, j, Whitespace, -1)

EmptyParsed ==
    [has |-> {}, year |-> 0, month |-> 0, day |-> 0, hour_div_12 |-> 0,
     hour_mod_12 |-> 0, minute |-> 0, second |-> 0, millis |-> 0,
     timestamp |-> [days |-> 0, secs |-> 0]]

\* Parsed::set_xxx for the numeric field named f
SetField(parsed, f, v) ==
    IF f = "year" THEN
        [ok |-> TRUE, p |-> [parsed EXCEPT !.has = @ \cup {"year"}, !.year = v]]
    ELSE IF f = "month" THEN
        [ok |-> TRUE, p |-> [parsed EXCEPT !.has = @ \cup {"month"}, !.month = v]]
    ELSE IF f = "day" THEN
        [ok |-> TRUE, p |-> [parsed EXCEPT !.has = @ \cup {"day"}, !.day = v]]
    ELSE IF f = "hour" THEN
        IF v > 23 THEN ParseErr
        ELSE [ok |-> TRUE,
              p |-> [parsed EXCEPT !.has = @ \cup {"hour_div_12", "hour_mod_12"},
                                   !.hour_div_12 = v \div 12,
                                   !.hour_mod_12 = v % 12]]
    ELSE IF f = "hour12" THEN
        IF v < 1 \/ v > 12 THEN ParseErr
        ELSE [ok |-> TRUE,
              p |-> [parsed EXCEPT !.has = @ \cup {"hour_mod_12"},
                                   !.hour_mod_12 = v % 12]]
    ELSE IF f = "minute" THEN
        [ok |-> TRUE, p |-> [parsed EXCEPT !.has = @ \cup {"minute"}, !.minute = v]]
    ELSE
        [ok |-> TRUE, p |-> [parsed EXCEPT !.has = @ \cup {"second"}, !.second = v]]

\* scan::nanosecond: one or more digits, read as a fraction of a second
Fraction(s, j) ==
    LET n == RunLen(s, j, Digit, -1)
        k == IF n > 3 THEN 3 ELSE n
        v == DigitsValue(s, j, k)
    IN  [n |-> n, millis |-> IF k = 1 THEN v * 100 ELSE IF k = 2 THEN v * 10 ELSE v]

\* scan::timezone_offset: sign, two digits, an optional colon, two digits
\* below 60; the number of characters taken, or -1
OffsetLen(s, j) ==
    LET colon == IF j + 3 <= Len(s) /\ s[j + 3] = ":" THEN 1 ELSE 0
        m == j + 3 + colon
    IN  IF j > Len(s) \/ s[j] \notin {"+", "-"} THEN -1
        ELSE IF RunLen(s, j + 1, Digit, 2) < 2 THEN -1
        ELSE IF RunLen(s, m, Digit, 2) < 2 THEN -1
        ELSE IF DigitValue(s[m]) > 5 THEN -1
        ELSE 5 + colon

RECURSIVE ParseItems(_, _, _, _, _)
\* format::parse: the items of fmt from position i against s from position j
ParseItems(fmt, i, s, j, parsed) ==
    IF i > Len(fmt) THEN
        IF j = Len(s) + 1 THEN [ok |-> TRUE, p |-> parsed] ELSE ParseErr
    ELSE IF fmt[i] \in Whitespace THEN
        ParseItems(fmt, i + 1, s, TrimStart(s, j), parsed)
    ELSE IF fmt[i] # "%" THEN
        IF j <= Len(s) /\ s[j] = fmt[i]
        THEN ParseItems(fmt, i + 1, s, j + 1, parsed) ELSE ParseErr
    ELSE IF i + 1 > Len(fmt) THEN ParseErr
    ELSE
        LET c == fmt[i + 1]
            c2 == IF i + 2 <= Len(fmt) THEN fmt[i + 2] ELSE " "
            c3 == IF i + 3 <= Len(fmt) THEN fmt[i + 3] ELSE " "
            t == TrimStart(s, j)
            numeric(f, width, next) ==
                LET n == RunLen(s, t, Digit, width)
                    r == SetField(parsed, f, DigitsValue(s, t, n))
                IN  IF n = 0 \/ ~r.ok THEN ParseErr
                    ELSE ParseItems(fmt, next, s, t + n, r.p)
            dotted(next) ==
                IF j <= Len(s) /\ s[j] = "." THEN
                    LET fr == Fraction(s, j + 1)
                    IN  IF fr.n = 0 THEN ParseErr
                        ELSE ParseItems(fmt, next, s, j + 1 + fr.n,
                                 [parsed EXCEPT !.has = @ \cup {"nanosecond"},
                                                !.millis = fr.millis])
                ELSE ParseItems(fmt, next, s, j, parsed)
            fixed(width, next) ==
                IF RunLen(s, j, Digit, width) < width THEN ParseErr
                ELSE ParseItems(fmt, next, s, j + width,
                         [parsed EXCEPT !.has = @ \cup {"nanosecond"},
                                        !.millis = Fraction(s, j).millis])
            offset(next) ==
                IF OffsetLen(s, t) < 0 THEN ParseErr
                ELSE ParseItems(fmt, next, s, t + OffsetLen(s, t), parsed)
        IN  IF c = "Y" THEN
                IF t <= Len(s) /\ s[t] \in {"+", "-"} THEN
                    LET n == RunLen(s, t + 1, Digit, 6)
                        v == DigitsValue(s, t + 1, n)
                    IN  IF n = 0 THEN ParseErr
                        ELSE ParseItems(fmt, i + 2, s, t + 1 + n,
                                 SetField(parsed, "year",
                                          IF s[t] = "-" THEN -v ELSE v).p)
                ELSE numeric("year", 4, i + 2)
            ELSE IF c = "m" THEN numeric("month", 2, i + 2)
            ELSE IF c = "d" THEN numeric("day", 2, i + 2)
            ELSE IF c = "H" THEN numeric("hour", 2, i + 2)
            ELSE IF c = "I" THEN numeric("hour12", 2, i + 2)
            ELSE IF c = "M" THEN numeric("minute", 2, i + 2)
            ELSE IF c = "S" THEN numeric("second", 2, i + 2)
            ELSE IF c = "s" THEN
                LET n == RunLen(s, t, Digit, -1)
                IN  IF n = 0 \/ n > 18 THEN ParseErr
                    ELSE ParseItems(fmt, i + 2, s, t + n,
                             [parsed EXCEPT !.has = @ \cup {"timestamp"},
                                            !.timestamp = SplitSeconds(s, t, n, 0, 0)])
            ELSE IF c = "p" THEN
                IF j + 1 > Len(s) THEN ParseErr
                ELSE IF LowerText(SubSeq(s, j, j + 1)) = <<"a", "m">> THEN
                    ParseItems(fmt, i + 2, s, j + 2,
                        [parsed EXCEPT !.has = @ \cup {"hour_div_12"},
                                       !.hour_div_12 = 0])
                ELSE IF LowerText(SubSeq(s, j, j + 1)) = <<"p", "m">> THEN
                    ParseItems(fmt, i + 2, s, j + 2,
                        [parsed EXCEPT !.has = @ \cup {"hour_div_12"},
                                       !.hour_div_12 = 1])
                ELSE ParseErr
            ELSE IF c = "b" THEN
                IF j + 2 > Len(s) THEN ParseErr
                ELSE LET name == LowerText(SubSeq(s, j, j + 2))
                         hit == {k \in 1..12 : ShortMonths[k] = name}
                     IN  IF hit = {} THEN ParseErr
                         ELSE ParseItems(fmt, i + 2, s, j + 3,
                                  SetField(parsed, "month",
                                           CHOOSE k \in hit : TRUE).p)
            ELSE IF c = "z" THEN offset(i + 2)
            ELSE IF c = ":" /\ c2 = "z" THEN offset(i + 3)
            ELSE IF c = "." /\ c2 = "f" THEN dotted(i + 3)
            ELSE IF c = "." /\ c2 \in {"3", "6", "9"} /\ c3 = "f" THEN dotted(i + 4)
            ELSE IF c \in {"3", "6", "9"} /\ c2 = "f" THEN
                fixed(DigitValue(c), i + 3)
            ELSE IF c = "%" THEN
                IF j <= Len(s) /\ s[j] = "%"
                THEN ParseItems(fmt, i + 2, s, j + 1, parsed) ELSE ParseErr
            ELSE ParseErr

\* Parsed::to_naive_date, from year, month and day
to_naive_date(p) ==
    IF ~({"year", "month", "day"} \subseteq p.has) THEN ParseErr
    ELSE IF p.year < -262144 \/ p.year > 262143 THEN ParseErr
    ELSE IF p.month < 1 \/ p.month > 12 THEN ParseErr
    ELSE IF p.day < 1 \/ p.day > DaysInMonth(p.year, p.month) THEN ParseErr
    ELSE [ok |-> TRUE, days |-> DaysFromCivil(p.year, p.month, p.day)]

\* Parsed::to_naive_time: hour and minute are required, the second may be
\* absent (then 0, and no fraction may be given), 60 is a leap second
to_naive_time(p) ==
    LET sec == IF "second" \in p.has THEN p.second ELSE 0
    IN  IF ~({"hour_div_12", "hour_mod_12", "minute"} \subseteq p.has) THEN ParseErr
        ELSE IF p.minute > 59 \/ sec > 60 THEN ParseErr
        ELSE IF "nanosecond" \in p.has /\ "second" \notin p.has THEN ParseErr
        ELSE [ok |-> TRUE,
              ms |-> (((p.hour_div_12 * 12 + p.hour_mod_12) * 60 + p.minute) * 60
                         + sec) * 1000
                     + (IF "nanosecond" \in p.has THEN p.millis ELSE 0)]

\* Parsed::to_naive_datetime_with_offset(0): date and time, or else the
\* timestamp field alone (a timestamp next to an incomplete date or time is
\* taken as an error here)
Resolve(p, date, time) ==
    IF date.ok /\ time.ok THEN
        IF "timestamp" \in p.has
           /\ (p.timestamp.days # date.days
               \/ p.timestamp.secs # time.ms \div 1000)
        THEN ParseErr
        ELSE [ok |-> TRUE, ts |-> [days |-> date.days, ms |-> time.ms]]
    ELSE IF "timestamp" \in p.has
            /\ p.has \subseteq {"timestamp", "nanosecond"} THEN
        IF p.timestamp.days > MaxNaiveDays THEN ParseErr
        ELSE [ok |-> TRUE,
              ts |-> [days |-> p.timestamp.days,
                      ms |-> p.timestamp.secs * 1000
                             + (IF "nanosecond" \in p.has THEN p.millis ELSE 0)]]
    ELSE ParseErr

to_naive_datetime(p) == Resolve(p, to_naive_date(p), to_naive_time(p))

\* NaiveDateTime::parse_from_str
parse_from_str(s, fmt) ==
    The({IF r.ok THEN to_naive_datetime(r.p) ELSE ParseErr
            : r \in {ParseItems(fmt, 1, s, 1, EmptyParsed)}})

----------------------------------------------------------------------------
(* get_builtin_formats: the built-in timestamp formats, in table order.    *)
(* regex, format and example are the source's texts, character by          *)
(* character.                                                              *)

TimestampFormat(name, regex, format, example) ==
    [name |-> name, regex |-> regex, format |-> format, example |-> example]

get_builtin_formats ==
    <<
      \* regex:   (\d{4}-\d{2}-\d{2}T\d{2}:\d{2}:\d{2}(?:\.\d+)?(?:Z|[+-]\d{2}:\d{2}))
      \* format:  %Y-%m-%dT%H:%M:%S%.f%:z
      \* example: 2025-11-13T10:00:00.123+00:00
      TimestampFormat("ISO 8601 with timezone",
        <<"(", "\\", "d", "{", "4", "}", "-", "\\", "d", "{", "2", "}", "-",
          "\\", "d", "{", "2", "}", "T", "\\", "d", "{", "2", "}", ":", "\\",
          "d", "{", "2", "}", ":", "\\", "d", "{", "2", "}", "(", "?", ":",
          "\\", ".", "\\", "d", "+", ")", "?", "(", "?", ":", "Z", "|", "[",
          "+", "-", "]", "\\", "d", "{", "2", "}", ":", "\\", "d", "{", "2",
          "}", ")", ")">>,
        <<"%", "Y", "-", "%", "m", "-", "%", "d", "T", "%", "H", ":", "%",
          "M", ":", "%", "S", "%", ".", "f", "%", ":", "z">>,
        <<"2", "0", "2", "5", "-", "1", "1", "-", "1", "3", "T", "1", "0",
          ":", "0", "0", ":", "0", "0", ".", "1", "2", "3", "+", "0", "0",
          ":", "0", "0">>),
      \* regex:   (\d{4}-\d{2}-\d{2}T\d{2}:\d{2}:\d{2}(?:\.\d+)?)
      \* format:  %Y-%m-%dT%H:%M:%S%.f
      \* example: 2025-11-13T10:00:00.123
      TimestampFormat("ISO 8601 without timezone",
        <<"(", "\\", "d", "{", "4", "}", "-", "\\", "d", "{", "2", "}", "-",
          "\\", "d", "{", "2", "}", "T", "\\", "d", "{", "2", "}", ":", "\\",
          "d", "{", "2", "}", ":", "\\", "d", "{", "2", "}", "(", "?", ":",
          "\\", ".", "\\", "d", "+", ")", "?", ")">>,
        <<"%", "Y", "-", "%", "m", "-", "%", "d", "T", "%", "H", ":", "%",
          "M", ":", "%", "S", "%", ".", "f">>,
        <<"2", "0", "2", "5", "-", "1", "1", "-", "1", "3", "T", "1", "0",
          ":", "0", "0", ":", "0", "0", ".", "1", "2", "3">>),
      \* regex:   (\d{4}-\d{2}-\d{2} \d{2}:\d{2}:\d{2}(?:\.\d+)?(?:Z|[+-]\d{2}:\d{2})?)
      \* format:  %Y-%m-%d %H:%M:%S%.f%:z
      \* example: 2025-11-13 10:00:00.123+00:00
      TimestampFormat("RFC 3339",
        <<"(", "\\", "d", "{", "4", "}", "-", "\\", "d", "{", "2", "}", "-",
          "\\", "d", "{", "2", "}", " ", "\\", "d", "{", "2", "}", ":", "\\",
          "d", "{", "2", "}", ":", "\\", "d", "{", "2", "}", "(", "?", ":",
          "\\", ".", "\\", "d", "+", ")", "?", "(", "?", ":", "Z", "|", "[",
          "+", "-", "]", "\\", "d", "{", "2", "}", ":", "\\", "d", "{", "2",
          "}", ")", "?", ")">>,
        <<"%", "Y", "-", "%", "m", "-", "%", "d", " ", "%", "H", ":", "%",
          "M", ":", "%", "S", "%", ".", "f", "%", ":", "z">>,
        <<"2", "0", "2", "5", "-", "1", "1", "-", "1", "3", " ", "1", "0",
          ":", "0", "0", ":", "0", "0", ".", "1", "2", "3", "+", "0", "0",
          ":", "0", "0">>),
      \* regex:   (\d{4}-\d{2}-\d{2} \d{2}:\d{2}:\d{2})
      \* format:  %Y-%m-%d %H:%M:%S
      \* example: 2025-11-13 10:00:00
      TimestampFormat("Common log format (YYYY-MM-DD HH:MM:SS)",
        <<"(", "\\", "d", "{", "4", "}", "-", "\\", "d", "{", "2", "}", "-",
          "\\", "d", "{", "2", "}", " ", "\\", "d", "{", "2", "}", ":", "\\",
          "d", "{", "2", "}", ":", "\\", "d", "{", "2", "}", ")">>,
        <<"%", "Y", "-", "%", "m", "-", "%", "d", " ", "%", "H", ":", "%",
          "M", ":", "%", "S">>,
        <<"2", "0", "2", "5", "-", "1", "1", "-", "1", "3", " ", "1", "0",
          ":", "0", "0", ":", "0", "0">>),
      \* regex:   (\d{4}-\d{2}-\d{2} \d{2}:\d{2}:\d{2}\.\d{3})
      \* format:  %Y-%m-%d %H:%M:%S%.3f
      \* example: 2025-11-13 10:00:00.123
      TimestampFormat("Common log format with milliseconds",
        <<"(", "\\", "d", "{", "4", "}", "-", "\\", "d", "{", "2", "}", "-",
          "\\", "d", "{", "2", "}", " ", "\\", "d", "{", "2", "}", ":", "\\",
          "d", "{", "2", "}", ":", "\\", "d", "{", "2", "}", "\\", ".", "\\",
          "d", "{", "3", "}", ")">>,
        <<"%", "Y", "-", "%", "m", "-", "%", "d", " ", "%", "H", ":", "%",
          "M", ":", "%", "S", "%", ".", "3", "f">>,
        <<"2", "0", "2", "5", "-", "1", "1", "-", "1", "3", " ", "1", "0",
          ":", "0", "0", ":", "0", "0", ".", "1", "2", "3">>),
      \* regex:   \[(\d{2}/[A-Za-z]{3}/\d{4}:\d{2}:\d{2}:\d{2} [+-]\d{4})\]
      \* format:  %d/%b/%Y:%H:%M:%S %z
      \* example: [13/Nov/2025:10:00:00 +0000]
      TimestampFormat("Apache/Nginx common log format",
        <<"\\", "[", "(", "\\", "d", "{", "2", "}", "/", "[", "A", "-", "Z",
          "a", "-", "z", "]", "{", "3", "}", "/", "\\", "d", "{", "4", "}",
          ":", "\\", "d", "{", "2", "}", ":", "\\", "d", "{", "2", "}", ":",
          "\\", "d", "{", "2", "}", " ", "[", "+", "-", "]", "\\", "d", "{",
          "4", "}", ")", "\\", "]">>,
        <<"%", "d", "/", "%", "b", "/", "%", "Y", ":", "%", "H", ":", "%",
          "M", ":", "%", "S", " ", "%", "z">>,
        <<"[", "1", "3", "/", "N", "o", "v", "/", "2", "0", "2", "5", ":",
          "1", "0", ":", "0", "0", ":", "0", "0", " ", "+", "0", "0", "0",
          "0", "]">>),
      \* regex:   ([A-Za-z]{3}\s+\d{1,2} \d{2}:\d{2}:\d{2})
      \* format:  %b %d %H:%M:%S
      \* example: Nov 13 10:00:00
      TimestampFormat("Syslog format (RFC 3164)",
        <<"(", "[", "A", "-", "Z", "a", "-", "z", "]", "{", "3", "}", "\\",
          "s", "+", "\\", "d", "{", "1", ",", "2", "}", " ", "\\", "d", "{",
          "2", "}", ":", "\\", "d", "{", "2", "}", ":", "\\", "d", "{", "2",
          "}", ")">>,
        <<"%", "b", " ", "%", "d", " ", "%", "H", ":", "%", "M", ":", "%",
          "S">>,
        <<"N", "o", "v", " ", "1", "3", " ", "1", "0", ":", "0", "0", ":",
          "0", "0">>),
      \* regex:   (\d{4}-\d{2}-\d{2}T\d{2}:\d{2}:\d{2}(?:\.\d+)?(?:Z|[+-]\d{2}:\d{2}))
      \* format:  %Y-%m-%dT%H:%M:%S%.f%:z
      \* example: 2025-11-13T10:00:00.123+00:00
      TimestampFormat("Syslog format (RFC 5424)",
        <<"(", "\\", "d", "{", "4", "}", "-", "\\", "d", "{", "2", "}", "-",
          "\\", "d", "{", "2", "}", "T", "\\", "d", "{", "2", "}", ":", "\\",
          "d", "{", "2", "}", ":", "\\", "d", "{", "2", "}", "(", "?", ":",
          "\\", ".", "\\", "d", "+", ")", "?", "(", "?", ":", "Z", "|", "[",
          "+", "-", "]", "\\", "d", "{", "2", "}", ":", "\\", "d", "{", "2",
          "}", ")", ")">>,
        <<"%", "Y", "-", "%", "m", "-", "%", "d", "T", "%", "H", ":", "%",
          "M", ":", "%", "S", "%", ".", "f", "%", ":", "z">>,
        <<"2", "0", "2", "5", "-", "1", "1", "-", "1", "3", "T", "1", "0",
          ":", "0", "0", ":", "0", "0", ".", "1", "2", "3", "+", "0", "0",
          ":", "0", "0">>),
      \* regex:   (\d{1,2}/\d{1,2}/\d{4} \d{1,2}:\d{2}:\d{2} (?:AM|PM))
      \* format:  %m/%d/%Y %I:%M:%S %p
      \* example: 11/13/2025 10:00:00 AM
      TimestampFormat("Windows Event Log format",
        <<"(", "\\", "d", "{", "1", ",", "2", "}", "/", "\\", "d", "{", "1",
          ",", "2", "}", "/", "\\", "d", "{", "4", "}", " ", "\\", "d", "{",
          "1", ",", "2", "}", ":", "\\", "d", "{", "2", "}", ":", "\\", "d",
          "{", "2", "}", " ", "(", "?", ":", "A", "M", "|", "P", "M", ")",
          ")">>,
        <<"%", "m", "/", "%", "d", "/", "%", "Y", " ", "%", "I", ":", "%",
          "M", ":", "%", "S", " ", "%", "p">>,
        <<"1", "1", "/", "1", "3", "/", "2", "0", "2", "5", " ", "1", "0",
          ":", "0", "0", ":", "0", "0", " ", "A", "M">>),
      \* regex:   \b(\d{10})\b
      \* format:  %s
      \* example: 1699876800
      TimestampFormat("Unix timestamp (seconds)",
        <<"\\", "b", "(", "\\", "d", "{", "1", "0", "}", ")", "\\", "b">>,
        <<"%", "s">>,
        <<"1", "6", "9", "9", "8", "7", "6", "8", "0", "0">>),
      \* regex:   \b(\d{13})\b
      \* format:  %s%.3f
      \* example: 1699876800123
      TimestampFormat("Unix timestamp (milliseconds)",
        <<"\\", "b", "(", "\\", "d", "{", "1", "3", "}", ")", "\\", "b">>,
        <<"%", "s", "%", ".", "3", "f">>,
        <<"1", "6", "9", "9", "8", "7", "6", "8", "0", "0", "1", "2", "3">>),
      \* regex:   (\d{1,2}/\d{1,2}/\d{4} \d{2}:\d{2}:\d{2})
      \* format:  %m/%d/%Y %H:%M:%S
      \* example: 11/13/2025 10:00:00
      TimestampFormat("US date format with time",
        <<"(", "\\", "d", "{", "1", ",", "2", "}", "/", "\\", "d", "{", "1",
          ",", "2", "}", "/", "\\", "d", "{", "4", "}", " ", "\\", "d", "{",
          "2", "}", ":", "\\", "d", "{", "2", "}", ":", "\\", "d", "{", "2",
          "}", ")">>,
        <<"%", "m", "/", "%", "d", "/", "%", "Y", " ", "%", "H", ":", "%",
          "M", ":", "%", "S">>,
        <<"1", "1", "/", "1", "3", "/", "2", "0", "2", "5", " ", "1", "0",
          ":", "0", "0", ":", "0", "0">>),
      \* regex:   (\d{1,2}\.\d{1,2}\.\d{4} \d{2}:\d{2}:\d{2})
      \* format:  %d.%m.%Y %H:%M:%S
      \* example: 13.11.2025 10:00:00
      TimestampFormat("European date format with time",
        <<"(", "\\", "d", "{", "1", ",", "2", "}", "\\", ".", "\\", "d", "{",
          "1", ",", "2", "}", "\\", ".", "\\", "d", "{", "4", "}", " ", "\\",
          "d", "{", "2", "}", ":", "\\", "d", "{", "2", "}", ":", "\\", "d",
          "{", "2", "}", ")">>,
        <<"%", "d", ".", "%", "m", ".", "%", "Y", " ", "%", "H", ":", "%",
          "M", ":", "%", "S">>,
        <<"1", "3", ".", "1", "1", ".", "2", "0", "2", "5", " ", "1", "0",
          ":", "0", "0", ":", "0", "0">>),
      \* regex:   (\d{4}-\d{2}-\d{2} \d{2}:\d{2}:\d{2},\d{3})
      \* format:  %Y-%m-%d %H:%M:%S,%3f
      \* example: 2025-11-13 10:00:00,123
      TimestampFormat("Java log format",
        <<"(", "\\", "d", "{", "4", "}", "-", "\\", "d", "{", "2", "}", "-",
          "\\", "d", "{", "2", "}", " ", "\\", "d", "{", "2", "}", ":", "\\",
          "d", "{", "2", "}", ":", "\\", "d", "{", "2", "}", ",", "\\", "d",
          "{", "3", "}", ")">>,
        <<"%", "Y", "-", "%", "m", "-", "%", "d", " ", "%", "H", ":", "%",
          "M", ":", "%", "S", ",", "%", "3", "f">>,
        <<"2", "0", "2", "5", "-", "1", "1", "-", "1", "3", " ", "1", "0",
          ":", "0", "0", ":", "0", "0", ",", "1", "2", "3">>),
      \* regex:   (\d{4}-\d{2}-\d{2} \d{2}:\d{2}:\d{2},\d{3})
      \* format:  %Y-%m-%d %H:%M:%S,%3f
      \* example: 2025-11-13 10:00:00,123
      TimestampFormat("Python logging format",
        <<"(", "\\", "d", "{", "4", "}", "-", "\\", "d", "{", "2", "}", "-",
          "\\", "d", "{", "2", "}", " ", "\\", "d", "{", "2", "}", ":", "\\",
          "d", "{", "2", "}", ":", "\\", "d", "{", "2", "}", ",", "\\", "d",
          "{", "3", "}", ")">>,
        <<"%", "Y", "-", "%", "m", "-", "%", "d", " ", "%", "H", ":", "%",
          "M", ":", "%", "S", ",", "%", "3", "f">>,
        <<"2", "0", "2", "5", "-", "1", "1", "-", "1", "3", " ", "1", "0",
          ":", "0", "0", ":", "0", "0", ",", "1", "2", "3">>),
      \* regex:   (\d{8}_\d{6})
      \* format:  %Y%m%d_%H%M%S
      \* example: 20251113_100000
      TimestampFormat("Compact format (YYYYMMDD_HHMMSS)",
        <<"(", "\\", "d", "{", "8", "}", "_", "\\", "d", "{", "6", "}", ")">>,
        <<"%", "Y", "%", "m", "%", "d", "_", "%", "H", "%", "M", "%", "S">>,
        <<"2", "0", "2", "5", "1", "1", "1", "3", "_", "1", "0", "0", "0",
          "0", "0">>),
      \* regex:   (\d{8}_\d{6}\.\d{3})
      \* format:  %Y%m%d_%H%M%S%.3f
      \* example: 20251113_100000.123
      TimestampFormat("Compact format with milliseconds",
        <<"(", "\\", "d", "{", "8", "}", "_", "\\", "d", "{", "6", "}", "\\",
          ".", "\\", "d", "{", "3", "}", ")">>,
        <<"%", "Y", "%", "m", "%", "d", "_", "%", "H", "%", "M", "%", "S",
          "%", ".", "3", "f">>,
        <<"2", "0", "2", "5", "1", "1", "1", "3", "_", "1", "0", "0", "0",
          "0", "0", ".", "1", "2", "3">>)
    >>

----------------------------------------------------------------------------
(* LogParser (src/src/parser.rs)                                           *)

RECURSIVE CompileFormats(_, _, _)
\* LogParser::new, the loop over the built-in formats: each regex is
\* compiled and paired with its format; the first failure is the error
CompileFormats(formats, i, acc) ==
    IF i > Len(formats) THEN [ok |-> TRUE, formats |-> acc]
    ELSE The({IF ~regex.ok
              THEN [ok |-> FALSE,
                    error |->
                        <<MsgQuoting("Failed to compile built-in regex for format",
                                     formats[i].name)>> \o regex.error]
              ELSE CompileFormats(formats, i + 1,
                       Append(acc, [regex |-> regex.re, format |-> formats[i]]))
                 : regex \in {Regex_new(formats[i].regex)}})

RECURSIVE CompilePatterns(_, _, _)
\* LogParser::new, the loop over config.message_patterns
CompilePatterns(patterns, idx, acc) ==
    IF idx > Len(patterns) THEN [ok |-> TRUE, pattern_regexes |-> acc]
    ELSE The({IF ~regex.ok
              THEN [ok |-> FALSE,
                    error |-> <<MsgQuoting("Invalid message pattern regex",
                                           patterns[idx])>> \o regex.error]
              ELSE CompilePatterns(patterns, idx + 1,
                       Append(acc, [idx |-> idx - 1, pattern |-> patterns[idx],
                                    regex |-> regex.re]))
                 : regex \in {Regex_new(patterns[idx])}})

\* the built-in formats with their regexes compiled; the table is the same
\* for every parser, which holds it (builtin_formats) as the list of its
\* row numbers
CompiledBuiltins == CompileFormats(get_builtin_formats, 1, <<>>)

\* LogParser::new, the auto-detect branch followed by the pattern loop
NewAutoDetect(cfg, formats) ==
    IF ~formats.ok THEN [ok |-> FALSE, error |-> formats.error]
    ELSE The({IF ~patterns.ok THEN [ok |-> FALSE, error |-> patterns.error]
              ELSE [ok |-> TRUE,
                    timestamp_regex |-> <<>>,
                    timestamp_format |-> <<>>,
                    pattern_regexes |-> patterns.pattern_regexes,
                    builtin_formats |-> [i \in 1..Len(formats.formats) |-> i],
                    is_auto_detect |-> TRUE]
                 : patterns \in {CompilePatterns(cfg.message_patterns, 1, <<>>)}})

\* LogParser::new, the explicit branch followed by the pattern loop
NewExplicit(cfg, timestamp_regex) ==
    IF ~timestamp_regex.ok
    THEN [ok |-> FALSE,
          error |-> <<Msg("Invalid timestamp regex")>> \o timestamp_regex.error]
    ELSE The({IF ~patterns.ok THEN [ok |-> FALSE, error |-> patterns.error]
              ELSE [ok |-> TRUE,
                    timestamp_regex |-> timestamp_regex.re,
                    timestamp_format |-> cfg.timestamp_format,
                    pattern_regexes |-> patterns.pattern_regexes,
                    builtin_formats |-> <<>>,
                    is_auto_detect |-> FALSE]
                 : patterns \in {CompilePatterns(cfg.message_patterns, 1, <<>>)}})

\* LogParser::new
LogParser_new(cfg) ==
    IF cfg.is_auto_detect THEN NewAutoDetect(cfg, CompiledBuiltins)
    ELSE NewExplicit(cfg, Regex_new(cfg.timestamp_regex))

\* the three results of a fallible optional: Ok(Some(v)), Ok(None), Err(e)
OkSome(v) == [kind |-> "some", val |-> v]

OkNone == [kind |-> "none"]

Err(e) == [kind |-> "err", error |-> e]

\* captures.get(1) parsed under format fmt: Ok(Some(timestamp)), Ok(None)
\* when the regex or its group 1 did not match, Err when the text does not
\* parse
ParseCapture(c, line, fmt) ==
    IF ~c.ok THEN OkNone
    ELSE The({IF ~ts_str.some THEN OkNone
              ELSE The({IF timestamp.ok THEN OkSome(timestamp.ts)
                        ELSE Err(<<MsgQuoting("Failed to parse timestamp",
                                              ts_str.str)>>)
                           : timestamp \in {parse_from_str(ts_str.str, fmt)}})
                 : ts_str \in {get1(c, line)}})

\* one built-in format tried on a line
TryFormat(entry, line) ==
    ParseCapture(captures(entry.regex, line), line, entry.format.format)

RECURSIVE AutoDetect_strict(_, _, _)
\* variant of the auto-detect branch that propagates a parse failure of the
\* first format whose regex matches instead of trying the next format
AutoDetect_strict(builtin_formats, i, line) ==
    IF i > Len(builtin_formats) THEN OkNone
    ELSE The({IF r.kind = "none"
              THEN AutoDetect_strict(builtin_formats, i + 1, line)
              ELSE r
                 : r \in {TryFormat(CompiledBuiltins.formats[builtin_formats[i]],
                                    line)}})

RECURSIVE AutoDetect(_, _, _)
\* extract_timestamp, auto-detect branch: the built-in formats in order
\* from index i; the first whose regex captures and whose capture parses
AutoDetect(builtin_formats, i, line) ==
    IF i > Len(builtin_formats) THEN OkNone
    ELSE The({IF r.kind = "some" THEN r
              ELSE AutoDetect(builtin_formats, i + 1, line)
                 : r \in {TryFormat(CompiledBuiltins.formats[builtin_formats[i]],
                                    line)}})

\* variant of extract_timestamp whose explicit branch drops a parse failure
extract_timestamp_lenient(self, line) ==
    IF self.is_auto_detect THEN AutoDetect(self.builtin_formats, 1, line)
    ELSE The({IF r.kind = "err" THEN OkNone ELSE r
                 : r \in {ParseCapture(captures(self.timestamp_regex, line),
                                       line, self.timestamp_format)}})

\* LogParser::extract_timestamp
extract_timestamp(self, line) ==
    IF self.is_auto_detect THEN AutoDetect(self.builtin_formats, 1, line)
    ELSE ParseCapture(captures(self.timestamp_regex, line), line,
                      self.timestamp_format)

RECURSIVE LastPattern(_, _, _)
\* variant of the pattern loop that keeps going after a match, so that the
\* last matching pattern wins
LastPattern(pattern_regexes, i, line) ==
    IF i > Len(pattern_regexes) THEN [found |-> FALSE, tested |-> i - 1]
    ELSE The({IF later.found THEN later
              ELSE IF is_match(pattern_regexes[i].regex, line)
                  THEN [found |-> TRUE, pattern |-> pattern_regexes[i].pattern,
                        tested |-> later.tested]
              ELSE later
                 : later \in {LastPattern(pattern_regexes, i + 1, line)}})

RECURSIVE FirstPattern(_, _, _)
\* parse_line, the loop over pattern_regexes: the first that matches, and
\* the number of patterns tried
FirstPattern(pattern_regexes, i, line) ==
    IF i > Len(pattern_regexes) THEN [found |-> FALSE, tested |-> i - 1]
    ELSE IF is_match(pattern_regexes[i].regex, line)
        THEN [found |-> TRUE, pattern |-> pattern_regexes[i].pattern,
              tested |-> i]
    ELSE FirstPattern(pattern_regexes, i + 1, line)

\* variant of parse_line that reports a timestamp that does not parse only
\* on a line some message pattern matches
Classify_error_on_match(self, line, timestamp) ==
    IF timestamp.kind = "none" THEN [kind |-> "none", tested |-> 0]
    ELSE The({IF ~hit.found THEN [kind |-> "none", tested |-> hit.tested]
              ELSE IF timestamp.kind = "err"
                  THEN [kind |-> "err", error |-> timestamp.error,
                        tested |-> hit.tested]
              ELSE [kind |-> "some",
                    val |-> [pattern |-> hit.pattern,
                             timestamp |-> timestamp.val],
                    tested |-> hit.tested]
                 : hit \in {FirstPattern(self.pattern_regexes, 1, line)}})

\* parse_line once the timestamp is extracted
Classify(self, line, timestamp) ==
    IF timestamp.kind = "err"
    THEN [kind |-> "err", error |-> timestamp.error, tested |-> 0]
    ELSE IF timestamp.kind = "none" THEN [kind |-> "none", tested |-> 0]
    ELSE The({IF hit.found
              THEN [kind |-> "some",
                    val |-> [pattern |-> hit.pattern,
                             timestamp |-> timestamp.val],
                    tested |-> hit.tested]
              ELSE [kind |-> "none", tested |-> hit.tested]
                 : hit \in {FirstPattern(self.pattern_regexes, 1, line)}})

\* variant of parse_line that runs the pattern loop before it looks at the
\* timestamp
parse_line_patterns_first(self, line) ==
    The({The({IF timestamp.kind = "err"
              THEN [kind |-> "err", error |-> timestamp.error,
                    tested |-> hit.tested]
              ELSE IF timestamp.kind = "none" \/ ~hit.found
                  THEN [kind |-> "none", tested |-> hit.tested]
              ELSE [kind |-> "some",
                    val |-> [pattern |-> hit.pattern,
                             timestamp |-> timestamp.val],
                    tested |-> hit.tested]
                 : timestamp \in {extract_timestamp(self, line)}})
            : hit \in {FirstPattern(self.pattern_regexes, 1, line)}})

\* LogParser::parse_line
parse_line(self, line) == Classify(self, line, extract_timestamp(self, line))

----------------------------------------------------------------------------
(* The analyzer on its own: analyze applied to every bounded sequence of   *)
(* LogMatch values.                                                        *)

NoConfig == [is_auto_detect |-> FALSE, timestamp_regex |-> <<>>,
             timestamp_format |-> <<>>, message_patterns |-> <<>>]

NoParser == [ok |-> FALSE, error |-> <<>>]

\* Option::None, and the arguments of a run whose Config is given directly
None == [some |-> FALSE]

Some(v) == [some |-> TRUE, val |-> v]

NoArgs ==
    [config |-> None, timestamp_regex |-> None, timestamp_format |-> None,
     patterns |-> <<>>]

PatternNames == {<<"S", "T", "A", "R", "T">>, <<"E", "N", "D">>}

\* 2025-01-01 is day 20089 of the Unix era
TimestampDomain ==
    [days : 20089..(20089 + MaxDayOffset), ms : {0, 500}]

LogMatchDomain == [pattern : PatternNames, timestamp : TimestampDomain]

BoundedSeq(S, n) == UNION {[1..k -> S] : k \in 0..n}

InitAnalyze ==
    /\ config = NoConfig
    /\ parser = NoParser
    /\ input = <<>>
    /\ pos = 1
    /\ matches \in BoundedSeq(LogMatchDomain, MaxMatches)
    /\ intervals = <<>>
    /\ output = [kind |-> "nothing"]
    /\ pc = "matches"
    /\ duration = 0
    /\ text = <<>>
    /\ tested = 0
    /\ args = NoArgs
    /\ format_index = 0

Analyze ==
    /\ pc = "matches"
    /\ intervals' = analyze(matches)
    /\ pc' = "analyzed"
    /\ UNCHANGED <<args, format_index, config, parser, input, pos, matches,
                   output, duration, text, tested>>

NextAnalyze == Analyze

SpecAnalyze == InitAnalyze /\ [][NextAnalyze]_vars

----------------------------------------------------------------------------
(* format_duration on its own: applied to every duration of the bounded    *)
(* domain, positive and negative.                                          *)

SecondsDomain == (0..MaxSeconds) \cup {7200, 86400, 90061}

MillisDomain == {0, 1, 500, 999}

DurationDomain ==
    {sgn * (s * 1000 + m) : sgn \in {-1, 1}, s \in SecondsDomain, m \in MillisDomain}

InitFormat ==
    /\ config = NoConfig
    /\ parser = NoParser
    /\ input = <<>>
    /\ pos = 1
    /\ matches = <<>>
    /\ intervals = <<>>
    /\ output = [kind |-> "nothing"]
    /\ pc = "duration"
    /\ duration \in DurationDomain
    /\ text = <<>>
    /\ tested = 0
    /\ args = NoArgs
    /\ format_index = 0

Format ==
    /\ pc = "duration"
    /\ text' = format_duration(duration)
    /\ pc' = "formatted"
    /\ UNCHANGED <<args, format_index, config, parser, input, pos, matches,
                   intervals, output, duration, tested>>

NextFormat == Format

SpecFormat == InitFormat /\ [][NextFormat]_vars

----------------------------------------------------------------------------
(* The run of main (src/src/main.rs) from a loaded Config: build the       *)
(* parser, read the input line by line, analyze, print.                    *)

START == <<"S", "T", "A", "R", "T">>

END == <<"E", "N", "D">>

\* the explicit timestamp rule of main's usage example:
\*   --timestamp-regex '(\d{4}-\d{2}-\d{2} \d{2}:\d{2}:\d{2})'
\*   --timestamp-format '%Y-%m-%d %H:%M:%S'
ExampleRegex ==
    <<"(", "\\", "d", "{", "4", "}", "-", "\\", "d", "{", "2", "}", "-", "\\",
      "d", "{", "2", "}", " ", "\\", "d", "{", "2", "}", ":", "\\", "d", "{",
      "2", "}", ":", "\\", "d", "{", "2", "}", ")">>

ExampleFormat ==
    <<"%", "Y", "-", "%", "m", "-", "%", "d", " ", "%", "H", ":", "%", "M",
      ":", "%", "S">>

\* a timestamp regex with an unclosed group: (\d{4}
UnclosedRegex == <<"(", "\\", "d", "{", "4", "}">>

\* a regex whose compiled program exceeds the size limit: (\w{1000})
TooBigRegex == <<"(", "\\", "w", "{", "1", "0", "0", "0", "}", ")">>

\* the configurations explored: the explicit rule or auto-detection, with
\* the two message patterns in either order; configurations whose second
\* message pattern, "(END" or (\w{1000}), does not compile; configurations
\* whose timestamp regex does not compile
Configs ==
    {[is_auto_detect |-> FALSE, timestamp_regex |-> ExampleRegex,
      timestamp_format |-> ExampleFormat, message_patterns |-> p] :
        p \in {<<START, END>>, <<END, START>>, <<START, <<"(">> \o END>>,
               <<START, TooBigRegex>>}}
    \cup
    {[is_auto_detect |-> FALSE, timestamp_regex |-> r,
      timestamp_format |-> ExampleFormat, message_patterns |-> <<START, END>>] :
        r \in {UnclosedRegex, TooBigRegex}}
    \cup
    {[is_auto_detect |-> TRUE, timestamp_regex |-> <<>>,
      timestamp_format |-> <<>>, message_patterns |-> p] :
        p \in {<<START, END>>, <<END, START>>}}

\* The log lines the input is drawn from.

\* the first line of the end-to-end example:
\*   2025-01-01 00:00:00 START
LineStart ==
    <<"2", "0", "2", "5", "-", "0", "1", "-", "0", "1", " ", "0", "0", ":",
      "0", "0", ":", "0", "0", " ", "S", "T", "A", "R", "T">>

\* the second line of the end-to-end example:
\*   2025-01-01 00:00:05 END
LineEnd ==
    <<"2", "0", "2", "5", "-", "0", "1", "-", "0", "1", " ", "0", "0", ":",
      "0", "0", ":", "0", "5", " ", "E", "N", "D">>

\* a line both message patterns match:
\*   2025-01-01 00:00:07 END START
LineEndStart ==
    <<"2", "0", "2", "5", "-", "0", "1", "-", "0", "1", " ", "0", "0", ":",
      "0", "0", ":", "0", "7", " ", "E", "N", "D", " ", "S", "T", "A", "R",
      "T">>

\* a timestamp and no message pattern:
\*   2025-01-01 00:00:03 idle
LineIdle ==
    <<"2", "0", "2", "5", "-", "0", "1", "-", "0", "1", " ", "0", "0", ":",
      "0", "0", ":", "0", "3", " ", "i", "d", "l", "e">>

\* a message pattern and no timestamp:
\*   no timestamp START
LineNoTimestamp ==
    <<"n", "o", " ", "t", "i", "m", "e", "s", "t", "a", "m", "p", " ", "S",
      "T", "A", "R", "T">>

\* the timestamp regex matches, month 13 does not parse:
\*   2025-13-01 00:00:00 START
LineMonth13 ==
    <<"2", "0", "2", "5", "-", "1", "3", "-", "0", "1", " ", "0", "0", ":",
      "0", "0", ":", "0", "0", " ", "S", "T", "A", "R", "T">>

\* the timestamp regex matches, month 13 does not parse, and no message
\* pattern matches:
\*   2025-13-01 00:00:00 idle
LineMonth13Idle ==
    <<"2", "0", "2", "5", "-", "1", "3", "-", "0", "1", " ", "0", "0", ":",
      "0", "0", ":", "0", "0", " ", "i", "d", "l", "e">>

\* an Apache/Nginx timestamp:
\*   [01/Jan/2025:00:00:02 +0000] END
LineApache ==
    <<"[", "0", "1", "/", "J", "a", "n", "/", "2", "0", "2", "5", ":", "0",
      "0", ":", "0", "0", ":", "0", "2", " ", "+", "0", "0", "0", "0", "]",
      " ", "E", "N", "D">>

\* an ISO 8601 timestamp with milliseconds:
\*   2025-01-01T00:00:01.500 START
LineIsoMillis ==
    <<"2", "0", "2", "5", "-", "0", "1", "-", "0", "1", "T", "0", "0", ":",
      "0", "0", ":", "0", "1", ".", "5", "0", "0", " ", "S", "T", "A", "R",
      "T">>

LogLines ==
    {LineStart, LineEnd, LineEndStart, LineIdle,
     LineNoTimestamp, LineMonth13, LineMonth13Idle, LineApache,
     LineIsoMillis}

OutputFormats == {"human", "json"}

Init ==
    /\ config \in Configs
    /\ parser = NoParser
    /\ input \in BoundedSeq(LogLines, MaxLines)
    /\ pos = 1
    /\ matches = <<>>
    /\ intervals = <<>>
    /\ output = [kind |-> "nothing"]
    /\ pc = "new"
    /\ duration = 0
    /\ text = <<>>
    /\ tested = 0
    /\ args = NoArgs
    /\ format_index = 0

\* main: LogParser::new(&config), with `?`
NewParser ==
    /\ pc = "new"
    /\ parser' = LogParser_new(config)
    /\ IF parser'.ok
       THEN /\ pc' = "reading"
            /\ UNCHANGED output
       ELSE /\ pc' = "failed"
            /\ output' = [kind |-> "error",
                          error |-> <<Msg("Failed to create log parser")>>
                                        \o parser'.error]
    /\ UNCHANGED <<args, format_index, config, input, pos, matches, intervals,
                   duration, text, tested>>

\* variant of the loop turn that does not push a LogMatch equal to one
\* already collected
ReadLine_dedup ==
    /\ pc = "reading"
    /\ pos <= Len(input)
    /\ \E log_match \in {parse_line(parser, input[pos])} :
         /\ tested' = log_match.tested
         /\ IF log_match.kind = "err" THEN
                /\ matches' = <<>>
                /\ pc' = "failed"
                /\ output' = [kind |-> "error",
                              error |-> <<Msg("Failed to parse log")>>
                                            \o log_match.error]
            ELSE
                /\ matches' =
                       IF /\ log_match.kind = "some"
                          /\ \A k \in DOMAIN matches : matches[k] # log_match.val
                       THEN Append(matches, log_match.val)
                       ELSE matches
                /\ UNCHANGED <<pc, output>>
    /\ pos' = pos + 1
    /\ UNCHANGED <<args, format_index, config, parser, input, intervals,
                   duration, text>>

\* parse_reader: one turn of the loop over reader.lines(); an error of
\* parse_line leaves the function, dropping the matches collected so far
ReadLine ==
    /\ pc = "reading"
    /\ pos <= Len(input)
    /\ \E log_match \in {parse_line(parser, input[pos])} :
         /\ tested' = log_match.tested
         /\ IF log_match.kind = "err" THEN
                /\ matches' = <<>>
                /\ pc' = "failed"
                /\ output' = [kind |-> "error",
                              error |-> <<Msg("Failed to parse log")>>
                                            \o log_match.error]
            ELSE
                /\ matches' = IF log_match.kind = "some"
                              THEN Append(matches, log_match.val)
                              ELSE matches
                /\ UNCHANGED <<pc, output>>
    /\ pos' = pos + 1
    /\ UNCHANGED <<args, format_index, config, parser, input, intervals,
                   duration, text>>

\* parse_reader: the reader is exhausted, Ok(matches)
EndOfInput ==
    /\ pc = "reading"
    /\ pos > Len(input)
    /\ pc' = "parsed"
    /\ UNCHANGED <<args, format_index, config, parser, input, pos, matches,
                   intervals, output, duration, text, tested>>

\* main: matches.is_empty()
NoMatches ==
    /\ pc = "parsed"
    /\ matches = <<>>
    /\ IF config.is_auto_detect
       THEN /\ pc' = "failed"
            /\ output' = [kind |-> "error",
                          error |->
                              <<Msg("No timestamps could be detected automatically")>>]
       ELSE /\ pc' = "done"
            /\ output' = [kind |-> "notice",
                          notice |-> "No matching patterns found in log file"]
    /\ UNCHANGED <<args, format_index, config, parser, input, pos, matches,
                   intervals, duration, text, tested>>

\* main: Analyzer::analyze(matches) and intervals.is_empty()
RunAnalyzer ==
    /\ pc = "parsed"
    /\ matches # <<>>
    /\ intervals' = analyze(matches)
    /\ IF intervals' = <<>>
       THEN /\ pc' = "done"
            /\ output' = [kind |-> "notice",
                          notice |-> "Not enough matches to calculate intervals"]
       ELSE /\ pc' = "analyzed"
            /\ UNCHANGED output
    /\ UNCHANGED <<args, format_index, config, parser, input, pos, matches,
                   duration, text, tested>>

\* Interval::format
Interval_format(interval) ==
    interval.from_pattern \o <<" ", ":", ":", ":", ":", " ">>
        \o format_duration(interval.duration)
        \o <<" ", ":", ":", ":", ":", ">", " ">> \o interval.to_pattern

\* OutputFormatter::format_human: one text per interval (joined by newlines)
format_human(ivs) == [i \in 1..Len(ivs) |-> Interval_format(ivs[i])]

\* variant of format_json that reports whole seconds as duration_ms
format_json_whole_seconds(ivs) ==
    [i \in 1..Len(ivs) |->
        [from_pattern   |-> ivs[i].from_pattern,
         to_pattern     |-> ivs[i].to_pattern,
         duration_ms    |-> num_seconds(ivs[i].duration),
         duration_human |-> format_duration(ivs[i].duration)]]

\* OutputFormatter::format_json: the IntervalJson values that are serialized
format_json(ivs) ==
    [i \in 1..Len(ivs) |->
        [from_pattern   |-> ivs[i].from_pattern,
         to_pattern     |-> ivs[i].to_pattern,
         duration_ms    |-> num_milliseconds(ivs[i].duration),
         duration_human |-> format_duration(ivs[i].duration)]]

\* OutputFormatter::format_intervals, for the human and json formats
format_intervals(ivs, format) ==
    IF format = "human" THEN format_human(ivs) ELSE format_json(ivs)

\* main: format and print the intervals in the format of --format
Emit ==
    /\ pc = "analyzed"
    /\ \E output_format \in OutputFormats :
           output' = [kind |-> "intervals", format |-> output_format,
                      body |-> format_intervals(intervals, output_format)]
    /\ pc' = "done"
    /\ UNCHANGED <<args, format_index, config, parser, input, pos, matches,
                   intervals, duration, text, tested>>

Next ==
    \/ NewParser
    \/ ReadLine
    \/ EndOfInput
    \/ NoMatches
    \/ RunAnalyzer
    \/ Emit

Spec == Init /\ [][Next]_vars

----------------------------------------------------------------------------
(* Loading the configuration (src/src/config.rs) as main does, from an     *)
(* optional YAML file and the command-line overrides, followed by the run. *)

MaxPatterns == 3

ConfigErr(msg) == [ok |-> FALSE, error |-> <<Msg(msg)>>]

ConfigOk(c) == [ok |-> TRUE, config |-> c]

\* variant of validate that does not count the message patterns
validate_any_patterns(self) ==
    IF ~self.is_auto_detect /\ self.timestamp_regex = <<>>
    THEN ConfigErr("timestamp_regex cannot be empty")
    ELSE IF ~self.is_auto_detect /\ self.timestamp_format = <<>>
        THEN ConfigErr("timestamp_format cannot be empty")
    ELSE [ok |-> TRUE]

\* Config::validate
validate(self) ==
    IF ~self.is_auto_detect /\ self.timestamp_regex = <<>>
    THEN ConfigErr("timestamp_regex cannot be empty")
    ELSE IF ~self.is_auto_detect /\ self.timestamp_format = <<>>
        THEN ConfigErr("timestamp_format cannot be empty")
    ELSE IF Len(self.message_patterns) < 2
        THEN ConfigErr("Configuration must have at least 2 message patterns")
    ELSE [ok |-> TRUE]

\* config.validate()?; Ok(config)
Validated(c) == The({IF v.ok THEN ConfigOk(c) ELSE v : v \in {validate(c)}})

\* Config::from_file, on what is found at the path
from_file(file) ==
    IF file.kind = "unreadable" THEN ConfigErr("Failed to read config file")
    ELSE IF file.kind = "malformed"
        THEN ConfigErr("Failed to parse YAML configuration")
    ELSE Validated([is_auto_detect |-> FALSE,
                    timestamp_regex |-> file.timestamp_regex,
                    timestamp_format |-> file.timestamp_format,
                    message_patterns |-> file.message_patterns])

\* Config::for_auto_detection
for_auto_detection(message_patterns) ==
    IF Len(message_patterns) < 2
    THEN ConfigErr("Configuration must have at least 2 message patterns")
    ELSE ConfigOk([is_auto_detect |-> TRUE,
                   timestamp_regex |-> <<>>,
                   timestamp_format |-> <<>>,
                   message_patterns |-> message_patterns])

\* from_file_with_overrides: "Apply CLI overrides"
ApplyOverrides(c, timestamp_regex, timestamp_format, message_patterns) ==
    [is_auto_detect |->
         c.is_auto_detect /\ ~timestamp_regex.some /\ ~timestamp_format.some,
     timestamp_regex |->
         IF timestamp_regex.some THEN timestamp_regex.val
         ELSE c.timestamp_regex,
     timestamp_format |->
         IF timestamp_format.some THEN timestamp_format.val
         ELSE c.timestamp_format,
     message_patterns |->
         IF message_patterns.some /\ message_patterns.val # <<>>
         THEN message_patterns.val
         ELSE c.message_patterns]

\* Config::from_file_with_overrides
from_file_with_overrides(path, ts_regex, ts_format, message_patterns) ==
    IF path.some THEN
        The({IF ~r.ok THEN r
             ELSE Validated(ApplyOverrides(r.config, ts_regex,
                                           ts_format, message_patterns))
                : r \in {from_file(path.val)}})
    ELSE IF message_patterns.some THEN
        IF ~ts_regex.some /\ ~ts_format.some
        THEN for_auto_detection(message_patterns.val)
        ELSE IF ~ts_regex.some \/ ~ts_format.some
            THEN ConfigErr("both --timestamp-regex and --timestamp-format are required")
        ELSE Validated(ApplyOverrides(NoConfig, ts_regex,
                                      ts_format, message_patterns))
    ELSE ConfigErr("at least 2 --pattern arguments must be specified")

\* the message patterns START, END, START, ... of length n
PatternList(n) == [i \in 1..n |-> IF i % 2 = 1 THEN START ELSE END]

\* what may be found at the path of --config
ConfigFiles ==
    {[kind |-> "unreadable"], [kind |-> "malformed"]}
    \cup
    {[kind |-> "yaml", timestamp_regex |-> r, timestamp_format |-> f,
      message_patterns |-> PatternList(n)] :
        r \in {<<>>, ExampleRegex}, f \in {<<>>, ExampleFormat},
        n \in 0..MaxPatterns}

\* the command lines explored
ArgsDomain ==
    [config : {None} \cup {Some(file) : file \in ConfigFiles},
     timestamp_regex : {None, Some(<<>>), Some(ExampleRegex)},
     timestamp_format : {None, Some(<<>>), Some(ExampleFormat)},
     patterns : {PatternList(n) : n \in 0..MaxPatterns}]

\* the inputs of the runs that follow a loaded configuration
ConfigRunInputs == {<<LineStart, LineEnd>>, <<LineIdle>>}

InitConfig ==
    /\ args \in ArgsDomain
    /\ format_index = 0
    /\ config = NoConfig
    /\ parser = NoParser
    /\ input \in ConfigRunInputs
    /\ pos = 1
    /\ matches = <<>>
    /\ intervals = <<>>
    /\ output = [kind |-> "nothing"]
    /\ pc = "load"
    /\ duration = 0
    /\ text = <<>>
    /\ tested = 0

\* main: args.patterns to an Option, Config::from_file_with_overrides, `?`
LoadConfig ==
    /\ pc = "load"
    /\ \E r \in {from_file_with_overrides(
                     args.config, args.timestamp_regex, args.timestamp_format,
                     IF args.patterns = <<>> THEN None
                     ELSE Some(args.patterns))} :
           IF r.ok
           THEN /\ config' = r.config
                /\ pc' = "new"
                /\ UNCHANGED output
           ELSE /\ pc' = "failed"
                /\ output' = [kind |-> "error",
                              error |-> <<Msg("Failed to load configuration")>>
                                            \o r.error]
                /\ UNCHANGED config
    /\ UNCHANGED <<args, format_index, parser, input, pos, matches, intervals,
                   duration, text, tested>>

NextConfig ==
    \/ LoadConfig
    \/ NewParser
    \/ ReadLine
    \/ EndOfInput
    \/ NoMatches
    \/ RunAnalyzer
    \/ Emit

SpecConfig == InitConfig /\ [][NextConfig]_vars

----------------------------------------------------------------------------
(* The built-in catalog on the example texts of its entries: one entry     *)
(* tried on its own, as the loop body of extract_timestamp does, and the   *)
(* whole loop of the auto-detecting parser.                                *)

\* the Config of --pattern START --pattern END without timestamp options
AutoConfig == for_auto_detection(<<START, END>>).config

\* the example texts of the catalog
Examples ==
    {get_builtin_formats[j].example : j \in 1..Len(get_builtin_formats)}

InitCatalog ==
    /\ args = NoArgs
    /\ format_index \in 1..Len(get_builtin_formats)
    /\ config = AutoConfig
    /\ parser = LogParser_new(AutoConfig)
    /\ input \in {<<e>> : e \in Examples}
    /\ pos = 1
    /\ matches = <<>>
    /\ intervals = <<>>
    /\ output = [kind |-> "nothing"]
    /\ pc = "catalog"
    /\ duration = 0
    /\ text = <<>>
    /\ tested = 0

\* the body of the auto-detect loop for the format at format_index:
\* regex.captures(line), captures.get(1), parse_from_str
TryEntry ==
    /\ pc = "catalog"
    /\ \E format \in
           {CompiledBuiltins.formats[parser.builtin_formats[format_index]]} :
           output' = [kind |-> "entry",
                      captured |-> captures(format.regex, input[1]).ok,
                      timestamp |-> TryFormat(format, input[1])]
    /\ pc' = "tried"
    /\ UNCHANGED <<args, format_index, config, parser, input, pos, matches,
                   intervals, duration, text, tested>>

\* extract_timestamp of the auto-detecting parser on the line
DetectLine ==
    /\ pc = "tried"
    /\ output' = [kind |-> "detected",
                  timestamp |-> extract_timestamp(parser, input[1])]
    /\ pc' = "detected"
    /\ UNCHANGED <<args, format_index, config, parser, input, pos, matches,
                   intervals, duration, text, tested>>

NextCatalog ==
    \/ TryEntry
    \/ DetectLine

SpecCatalog == InitCatalog /\ [][NextCatalog]_vars

----------------------------------------------------------------------------
(* Properties of Analyzer::analyze and format_duration.                    *)

Max(a, b) == IF a >= b THEN a ELSE b

\* milliseconds of a NaiveDateTime since the Unix epoch day 20089
MillisSince(t) == (t.days - 20089) * 86400000 + t.ms

Earlier(a, b) == a.days < b.days \/ (a.days = b.days /\ a.ms < b.ms)

\* C1: analyze on n matches returns exactly max(n-1, 0) intervals; an empty
\* or single-element input yields the empty interval sequence.
C1_IntervalCount ==
    pc = "analyzed" =>
        /\ Len(intervals) = Max(Len(matches) - 1, 0)
        /\ (Len(matches) <= 1 => intervals = <<>>)

C1_Witness == pc = "analyzed" /\ Len(matches) = 1 /\ intervals = <<>>

\* C2: interval i joins match i and match i+1: it copies their patterns and
\* its duration is the signed difference of their timestamps, negative when
\* the timestamps regress.
C2_AdjacentPairs ==
    pc = "analyzed" =>
        \A i \in 1..(Len(matches) - 1) :
            /\ i \in DOMAIN intervals
            /\ intervals[i].from_pattern = matches[i].pattern
            /\ intervals[i].to_pattern = matches[i + 1].pattern
            /\ intervals[i].duration =
                   MillisSince(matches[i + 1].timestamp)
                       - MillisSince(matches[i].timestamp)
            /\ (Earlier(matches[i + 1].timestamp, matches[i].timestamp)
                    => intervals[i].duration < 0)

C2_Witness ==
    /\ pc = "analyzed"
    /\ \E i \in DOMAIN intervals :
           /\ Earlier(matches[i + 1].timestamp, matches[i].timestamp)
           /\ intervals[i].duration < 0

\* C3: the text of format_duration(d) starts with "-" exactly when d is
\* negative, and for d > 0 the text of format_duration(-d) is "-" followed
\* by the text of format_duration(d).
C3_SignIffNegative ==
    pc = "formatted" =>
        /\ (Head(text) = "-") <=> (duration < 0)
        /\ (duration > 0 => format_duration(-duration) = <<"-">> \o text)

\* the text of a rendering without its sign
Unsigned(t) == IF t # <<>> /\ Head(t) = "-" THEN Tail(t) ELSE t

\* the shape the rules name for T whole seconds and M milliseconds
ShapeOf(T, M) ==
    IF T >= 3600 THEN
        Display(T \div 3600) \o <<"h", " ">> \o Display((T % 3600) \div 60)
            \o <<"m", " ">> \o Display(T % 60) \o <<"s">>
    ELSE IF T >= 60 THEN
        Display(T \div 60) \o <<"m", " ">> \o Display(T % 60) \o <<"s">>
    ELSE IF T >= 1 THEN
        Display(T) \o <<"s", " ">> \o Display(M) \o <<"m", "s">>
    ELSE
        Display(M) \o <<"m", "s">>

\* C4: with T the whole seconds of |d| and M = |d in ms| mod 1000, the
\* magnitude text is the shape of the first applicable rule (hours, minutes,
\* seconds, milliseconds); 3661s, 125s, 1500ms and 500ms render as "1h 1m 1s",
\* "2m 5s", "1s 500ms" and "500ms".
C4_UnitShape ==
    pc = "formatted" =>
        /\ Unsigned(text) = ShapeOf(Abs(duration) \div 1000, Abs(duration) % 1000)
        /\ (duration = 3661000 =>
                text = <<"1", "h", " ", "1", "m", " ", "1", "s">>)
        /\ (duration = 125000 => text = <<"2", "m", " ", "5", "s">>)
        /\ (duration = 1500 =>
                text = <<"1", "s", " ", "5", "0", "0", "m", "s">>)
        /\ (duration = 500 => text = <<"5", "0", "0", "m", "s">>)

C4_Witness ==
    /\ pc = "formatted"
    /\ duration = 125500
    /\ text = <<"2", "m", " ", "5", "s">>

----------------------------------------------------------------------------
(* Properties of the run: LogParser::parse_reader, parse_line and          *)
(* extract_timestamp driven by main.                                       *)

\* the run of the end-to-end example
EndToEndRun ==
    /\ ~config.is_auto_detect
    /\ config.message_patterns = <<START, END>>
    /\ config.timestamp_format = ExampleFormat
    /\ input = <<LineStart, LineEnd>>

\* the end-to-end run ends with one interval START -> END of 5000 ms whose
\* rendered duration is the text human
EndToEndYields(human) ==
    (EndToEndRun /\ pc = "done") =>
        /\ output.kind = "intervals"
        /\ Len(intervals) = 1
        /\ intervals[1] = [from_pattern |-> START, to_pattern |-> END,
                           duration |-> 5000]
        /\ (output.format = "json" =>
                output.body = <<[from_pattern |-> START, to_pattern |-> END,
                                 duration_ms |-> 5000,
                                 duration_human |-> human]>>)
        /\ (output.format = "human" =>
                output.body = <<START \o <<" ", ":", ":", ":", ":", " ">>
                                 \o human
                                 \o <<" ", ":", ":", ":", ":", ">", " ">>
                                 \o END>>)

\* C5 as amended: in explicit mode with message patterns START and END, the
\* format %Y-%m-%d %H:%M:%S and the lines "2025-01-01 00:00:00 START",
\* "2025-01-01 00:00:05 END", the run yields exactly one interval from START
\* to END with duration_ms 5000 and the human duration text "5s 0ms".
C5_EndToEnd == EndToEndYields(<<"5", "s", " ", "0", "m", "s">>)

C5_Witness ==
    /\ EndToEndRun
    /\ pc = "done"
    /\ output.kind = "intervals"
    /\ output.format = "json"
    /\ output.body[1].duration_ms = 5000

\* C5 as stated: the same run yields the human duration text "5s".
C5_EndToEnd_AsStated == EndToEndYields(<<"5", "s">>)

\* C6: in explicit mode a line the timestamp regex does not match is
\* skipped, without a LogMatch or an error, and reading goes on with the
\* next line; a line the regex matches whose group 1 does not parse under
\* the configured format makes parse_reader fail and the run abort.
C6_ExplicitSkipOrAbort ==
    [][(pc = "reading" /\ ~config.is_auto_detect /\ pos' = pos + 1) =>
          \A c \in {captures(parser.timestamp_regex, input[pos])} :
              IF ~c.ok
              THEN /\ matches' = matches
                   /\ pc' = "reading"
                   /\ output' = output
              ELSE \A t \in {parse_from_str(get1(c, input[pos]).str,
                                            parser.timestamp_format)} :
                       ~t.ok => /\ pc' = "failed"
                                /\ output'.kind = "error"
                                /\ matches' = <<>>
      ]_vars

C6_Witness ==
    /\ ~config.is_auto_detect
    /\ pc = "failed"
    /\ pos = 3
    /\ input[1] = LineNoTimestamp
    /\ input[2] = LineMonth13
    /\ output.kind = "error"

\* catalog entry i succeeds on a line: its regex matches and capture group 1
\* parses under its format
Succeeds(i, line) ==
    TryFormat(CompiledBuiltins.formats[i], line).kind = "some"

\* the catalog entries that succeed on a line
Winners(line) == {i \in 1..Len(get_builtin_formats) : Succeeds(i, line)}

Least(S) == CHOOSE i \in S : \A j \in S : i <= j

\* C7: in auto-detect mode the timestamp of a line is the one of the lowest
\* catalog entry whose regex matches and whose capture parses; an entry
\* whose regex matches and whose capture does not parse is passed over
\* without an error; when no entry succeeds the line is skipped without an
\* error.
C7_FirstSuccessWins ==
    [][(pc = "reading" /\ config.is_auto_detect /\ pos' = pos + 1) =>
          /\ pc' = "reading"
          /\ output' = output
          /\ \A W \in {Winners(input[pos])} :
                 IF W = {}
                 THEN /\ matches' = matches
                      /\ extract_timestamp(parser, input[pos]) = OkNone
                 ELSE \A t \in {TryFormat(CompiledBuiltins.formats[Least(W)],
                                          input[pos])} :
                          /\ extract_timestamp(parser, input[pos]) = t
                          /\ (matches' # matches =>
                                 matches'[Len(matches')].timestamp = t.val)
      ]_vars

C7_Witness ==
    /\ config.is_auto_detect
    /\ pc = "reading"
    /\ pos = 2
    /\ input[1] = LineStart
    /\ Len(matches) = 1
    /\ \E i \in 1..(Least(Winners(LineStart)) - 1) :
           captures(CompiledBuiltins.formats[i].regex, LineStart).ok

\* the configured message patterns that match a line, by index
Matching(line) ==
    {k \in 1..Len(parser.pattern_regexes) :
        is_match(parser.pattern_regexes[k].regex, line)}

\* C8: a line yields at most one LogMatch, and a line with a timestamp that
\* one or more message patterns match yields the LogMatch whose pattern is
\* the lowest-index matching pattern of message_patterns.
C8_LowestPatternWins ==
    [][(pc = "reading" /\ pos' = pos + 1) =>
          /\ Len(matches') <= Len(matches) + 1
          /\ \A ts \in {extract_timestamp(parser, input[pos])} :
                 \A M \in {Matching(input[pos])} :
                     (ts.kind = "some" /\ M # {}) =>
                         matches' =
                             Append(matches,
                                    [pattern |->
                                         config.message_patterns[Least(M)],
                                     timestamp |-> ts.val])
      ]_vars

C8_Witness ==
    /\ pc = "reading"
    /\ pos = 2
    /\ input[1] = LineEndStart
    /\ config.message_patterns = <<START, END>>
    /\ Matching(LineEndStart) = {1, 2}
    /\ Len(matches) = 1
    /\ matches[1].pattern = START

\* C9: a line from which no timestamp is obtained yields no LogMatch and
\* none of its message patterns is tested, even when one would match; a line
\* with a timestamp that no message pattern matches yields no LogMatch and
\* no error.
C9_TimestampFirst ==
    [][(pc = "reading" /\ pos' = pos + 1) =>
          \A ts \in {extract_timestamp(parser, input[pos])} :
              /\ ts.kind = "none" =>
                     /\ matches' = matches
                     /\ tested' = 0
                     /\ pc' = "reading"
                     /\ output' = output
              /\ (ts.kind = "some" /\ Matching(input[pos]) = {}) =>
                     /\ matches' = matches
                     /\ pc' = "reading"
                     /\ output' = output
      ]_vars

C9_Witness ==
    /\ pc = "reading"
    /\ pos = 3
    /\ input[1] = LineIdle
    /\ input[2] = LineNoTimestamp
    /\ Matching(LineNoTimestamp) # {}
    /\ matches = <<>>
    /\ tested = 0

\* the result of parse_line on each of the first n lines of the input
Classified(n) == [j \in 1..n |-> parse_line(parser, input[j])]

StrictlyIncreasing(f) == \A a, b \in DOMAIN f : a < b => f[a] < f[b]

\* C10: while parse_reader has not failed, the LogMatch sequence is an
\* order-preserving filter/map of the lines read: the k-th LogMatch is the
\* classification of a line later than the line of the (k-1)-th, and every
\* line that classifies to a match contributes exactly one LogMatch, equal
\* lines included.
C10_OrderPreservingFilterMap ==
    pc \in {"reading", "parsed", "analyzed", "done"} =>
        \A cls \in {Classified(pos - 1)} :
            \E f \in [1..Len(matches) -> 1..(pos - 1)] :
                /\ StrictlyIncreasing(f)
                /\ \A k \in 1..Len(matches) :
                       /\ cls[f[k]].kind = "some"
                       /\ matches[k] = cls[f[k]].val
                /\ \A j \in 1..(pos - 1) :
                       cls[j].kind = "some" =>
                           \E k \in 1..Len(matches) : f[k] = j

C10_Witness ==
    /\ pc = "parsed"
    /\ input = <<LineStart, LineStart>>
    /\ Len(matches) = 2
    /\ matches[1] = matches[2]

----------------------------------------------------------------------------
(* Properties of the configuration and of the construction of the parser.  *)

\* at least 2 message patterns and, unless auto-detecting, a non-empty
\* timestamp regex and format
ValidConfig(c) ==
    /\ Len(c.message_patterns) >= 2
    /\ (~c.is_auto_detect =>
           c.timestamp_regex # <<>> /\ c.timestamp_format # <<>>)

\* every successful result of a loader is a valid Config
ValidIfOk(r) == r.ok => ValidConfig(r.config)

\* the configuration file or the merged configuration has exactly one
\* message pattern
OnePattern ==
    \/ Len(args.patterns) = 1
    \/ /\ args.config.some
       /\ args.config.val.kind = "yaml"
       /\ Len(args.config.val.message_patterns) = 1

\* C11: every Config that from_file, for_auto_detection or
\* from_file_with_overrides returns has at least 2 message patterns and, when
\* not auto-detecting, a non-empty timestamp_regex and timestamp_format; a
\* configuration with one message pattern is rejected with an error before
\* the parser is built or a line is read.
C11_LoadedConfigValid ==
    /\ (config # NoConfig => ValidConfig(config))
    /\ (pc \notin {"load", "failed"} => ValidConfig(config))
    /\ (args.config.some => ValidIfOk(from_file(args.config.val)))
    /\ ValidIfOk(for_auto_detection(args.patterns))
    /\ ((OnePattern /\ pc # "load") =>
           /\ pc = "failed"
           /\ output.kind = "error"
           /\ config = NoConfig
           /\ parser = NoParser
           /\ pos = 1)

C11_Witness ==
    /\ pc = "failed"
    /\ args.config.some
    /\ ValidIfOk(from_file(args.config.val))
    /\ from_file(args.config.val).ok
    /\ args.patterns = <<START>>
    /\ output.kind = "error"
    /\ parser = NoParser
    /\ pos = 1

\* the configured regular expressions that do not compile: message patterns
\* and, in explicit mode, the timestamp regex
Offending ==
    {config.message_patterns[k] : k \in
        {j \in DOMAIN config.message_patterns :
            ~Regex_new(config.message_patterns[j]).ok}}
    \cup
    (IF ~config.is_auto_detect /\ ~Regex_new(config.timestamp_regex).ok
     THEN {config.timestamp_regex} ELSE {})

\* the error text quotes the pattern string b
Identifies(error, b) == \E k \in DOMAIN error : error[k].quoted = b

\* C12: LogParser::new fails, before any line is read, whenever a message
\* pattern or (in explicit mode) the timestamp regex does not compile, with
\* an error that identifies an offending pattern string; when all of them
\* compile it succeeds.
C12_ConstructionValidates ==
    pc \notin {"load", "new"} =>
        \A bad \in {Offending} :
            IF bad = {} THEN parser.ok
            ELSE /\ ~parser.ok
                 /\ pc = "failed"
                 /\ pos = 1
                 /\ matches = <<>>
                 /\ output.kind = "error"
                 /\ \E b \in bad : Identifies(output.error, b)

----------------------------------------------------------------------------
(* Properties of the end of the run in main.                               *)

\* the run ended with the fatal auto-detect diagnostic
AutoDetectDiagnostic ==
    /\ pc = "failed"
    /\ output.kind = "error"
    /\ output.error =
           <<Msg("No timestamps could be detected automatically")>>

\* the run ended with the generic, non-fatal "no matches" message
NoMatchesNotice ==
    /\ pc = "done"
    /\ output = [kind |-> "notice",
                 notice |-> "No matching patterns found in log file"]

\* some line of the input yields a timestamp
SomeTimestamp ==
    \E j \in DOMAIN input :
        extract_timestamp(parser, input[j]).kind = "some"

\* C13: in auto-detect mode the run ends with the fatal diagnostic "No
\* timestamps could be detected automatically" exactly when no line of the
\* input yields a timestamp; when some line yields a timestamp and no line
\* gives a LogMatch it ends with the generic non-fatal "no matches" message.
C13_DiagnosticIffNoTimestamp ==
    (config.is_auto_detect /\ pc \in {"done", "failed"}) =>
        /\ AutoDetectDiagnostic <=> ~SomeTimestamp
        /\ (SomeTimestamp /\ matches = <<>>) => NoMatchesNotice

\* C14: a run whose extraction completes with fewer than 2 matches ends
\* without error and without interval output: with no match by an
\* informational message, with one match by the message "Not enough matches
\* to calculate intervals"; the output encoder is never given an empty
\* interval sequence.
C14_FewMatchesNoOutput ==
    [][/\ (pc = "parsed" /\ Len(matches) < 2) =>
              /\ pc' = "done"
              /\ output'.kind = "notice"
              /\ intervals' = <<>>
              /\ (Len(matches) = 1 =>
                     output'.notice =
                         "Not enough matches to calculate intervals")
       /\ (output'.kind = "intervals" =>
              /\ Len(matches') >= 2
              /\ intervals' # <<>>
              /\ output'.body # <<>>)
      ]_vars

----------------------------------------------------------------------------
(* Properties of the built-in catalog.                                     *)

\* the line is the example text of the entry under test
OwnExample == input = <<get_builtin_formats[format_index].example>>

\* C15: every catalog entry is self-consistent: its regex compiles and
\* matches its own example, and capture group 1 of the match parses under
\* the entry's own format.
C15_CatalogSelfConsistent ==
    /\ parser.ok
    /\ Len(parser.builtin_formats) = Len(get_builtin_formats)
    /\ (pc = "tried" /\ OwnExample) =>
           /\ output.captured
           /\ output.timestamp.kind = "some"

\* C16: no catalog entry is shadowed: auto-detection on the example text of
\* an entry selects that entry, not an earlier one, and yields the timestamp
\* the entry itself parses from the example, with its milliseconds.
C16_NoEntryShadowed ==
    (pc = "detected" /\ OwnExample) =>
        /\ Winners(input[1]) # {}
        /\ Least(Winners(input[1])) = format_index
        /\ output.timestamp =
               TryFormat(CompiledBuiltins.formats[format_index], input[1])

RECURSIVE SumDurations(_)
\* the sum of the durations of a sequence of intervals
SumDurations(is) ==
    IF is = <<>> THEN 0
    ELSE is[Len(is)].duration + SumDurations(SubSeq(is, 1, Len(is) - 1))

\* C17: for n >= 2 matches the intervals of analyze form a chain: each
\* to_pattern is the next from_pattern, the first from_pattern is that of the
\* first match, the last to_pattern that of the last match, and the durations
\* sum to the last timestamp minus the first, negative durations included.
C17_IntervalsChain ==
    (pc = "analyzed" /\ Len(matches) >= 2) =>
        /\ intervals # <<>>
        /\ \A i \in 1..(Len(intervals) - 1) :
               intervals[i].to_pattern = intervals[i + 1].from_pattern
        /\ intervals[1].from_pattern = matches[1].pattern
        /\ intervals[Len(intervals)].to_pattern = matches[Len(matches)].pattern
        /\ SumDurations(intervals) =
               MillisSince(matches[Len(matches)].timestamp)
                   - MillisSince(matches[1].timestamp)

C17_Witness ==
    /\ pc = "analyzed"
    /\ Len(matches) = 3
    /\ Len(intervals) = 2
    /\ intervals[1].duration < 0
    /\ intervals[2].duration > 0
    /\ intervals[1].to_pattern # intervals[1].from_pattern
    /\ SumDurations(intervals) # 0

\* parse_reader returned an error to main
ParseReaderFailed ==
    /\ pc = "failed"
    /\ output.kind = "error"
    /\ output.error[1] = Msg("Failed to parse log")

\* the timestamp regex of the explicit rule matches the line and its group 1
\* does not parse under the configured format
BadTimestamp(line) ==
    /\ ~config.is_auto_detect
    /\ \A c \in {captures(parser.timestamp_regex, line)} :
           /\ c.ok
           /\ get1(c, line).some
           /\ ~parse_from_str(get1(c, line).str, parser.timestamp_format).ok

\* the line matches none of the message patterns
NoPattern(line) ==
    \A k \in DOMAIN parser.pattern_regexes :
        ~is_match(parser.pattern_regexes[k].regex, line)

\* C18: once the parser is built, parse_reader has failed exactly when the
\* rule is explicit and a line it has read matches the timestamp regex with a
\* capture that does not parse, whether or not a message pattern matches that
\* line; it returns Ok only when no line of the input is such a line; when it
\* fails the matches of the earlier lines are gone, analyze has not run and
\* no interval is printed.
C18_AllOrNothing ==
    parser.ok =>
        /\ ParseReaderFailed <=>
               \E k \in 1..(pos - 1) : BadTimestamp(input[k])
        /\ pc \in {"parsed", "analyzed", "done"} =>
               \A k \in DOMAIN input : ~BadTimestamp(input[k])
        /\ ParseReaderFailed =>
               /\ matches = <<>>
               /\ intervals = <<>>
               /\ output.kind # "intervals"
        /\ (\E k \in DOMAIN input : BadTimestamp(input[k])) =>
               /\ intervals = <<>>
               /\ output.kind # "intervals"

C18_Witness ==
    /\ ParseReaderFailed
    /\ ~config.is_auto_detect
    /\ input = <<LineStart, LineMonth13Idle>>
    /\ pos = 3
    /\ NoPattern(input[2])
    /\ matches = <<>>
    /\ intervals = <<>>

====
